---- MODULE Spec2Model ----
(***************************************************************************)
(* Model of the ingestion pipeline of rag-pipeline: the crawl command      *)
(* (cli/crawl.py, services/crawler.py, utils/retry.py), the per-stage      *)
(* state objects (services/state_manager.py) and sitemap discovery.        *)
(***************************************************************************)
EXTENDS Integers, Sequences, FiniteSets, TLC

(***************************************************************************)
(* Bounds of the model.                                                    *)
(***************************************************************************)
MaxUrls == 2                 \* longest --urls list given on the command line
MaxRuns == 2                 \* crawl command runs in one behaviour
MaxPagesArg == 1             \* largest --max-pages value (0 stands for "not set")
MaxConcurrentRequests == 1   \* config.max_concurrent_requests, scaled down
MaxRootSitemaps == 2         \* <sitemap> entries of a root sitemap
MaxRootUrls == 1             \* <url> entries of a root sitemap

(***************************************************************************)
(* Program constants.                                                      *)
(***************************************************************************)
PageMaxRetries == 3          \* fetch_page: max_retries=3
SitemapMaxRetries == 3       \* fetch_sitemap: max_retries=3
NestedMaxRetries == 2        \* _fetch_nested_sitemap: max_retries=2

(***************************************************************************)
(* URLs are the path segments after the host; <<>> stands for None.        *)
(***************************************************************************)
NoUrl == <<>>
UrlA == <<"docs", "a">>
UrlB == <<"docs", "b">>
UrlC == <<"blog", "c">>
URLS == {UrlA, UrlB}

Range(s) == {s[i] : i \in 1..Len(s)}

SeqsUpTo(S, n) == UNION {[1..k -> S] : k \in 0..n}

(***************************************************************************)
(* Python dict operations on functions.                                    *)
(***************************************************************************)
EmptyDict == <<>>

DictPut(d, k, v) == [x \in (DOMAIN d) \cup {k} |-> IF x = k THEN v ELSE d[x]]

DictGet(d, k, default) == IF k \in DOMAIN d THEN d[k] ELSE default

(***************************************************************************)
(* crawler.CrawlState                                                      *)
(***************************************************************************)
NewCrawlState ==
    [urls_discovered |-> <<>>, urls_completed |-> <<>>, urls_failed |-> EmptyDict,
     total_pages |-> 0, completed_pages |-> 0]

is_completed_never(st, url) == FALSE

is_completed(st, url) == url \in Range(st.urls_completed)

mark_completed(st, url) ==
    IF ~is_completed(st, url)
    THEN [st EXCEPT !.urls_completed = Append(@, url), !.completed_pages = @ + 1]
    ELSE st

mark_failed_noop(st, url, error) == st

mark_failed(st, url, error) ==
    [st EXCEPT !.urls_failed = DictPut(@, url, error)]

get_pending_urls(st) ==
    SelectSeq(st.urls_discovered,
              LAMBDA u : ~is_completed(st, u) /\ u \notin DOMAIN st.urls_failed)

\* The JSON document of a state: a dict from key to value.
to_json(st) ==
    [urls_discovered |-> st.urls_discovered, urls_completed |-> st.urls_completed,
     urls_failed |-> st.urls_failed, total_pages |-> st.total_pages,
     completed_pages |-> st.completed_pages]

from_json(data) ==
    [urls_discovered |-> DictGet(data, "urls_discovered", <<>>),
     urls_completed |-> DictGet(data, "urls_completed", <<>>),
     urls_failed |-> DictGet(data, "urls_failed", EmptyDict),
     total_pages |-> DictGet(data, "total_pages", 0),
     completed_pages |-> DictGet(data, "completed_pages", 0)]

(***************************************************************************)
(* The state file on disk: absent, a complete JSON document, or a file     *)
(* that was opened for writing (truncated) and not yet written.            *)
(***************************************************************************)
NoFile == [kind |-> "none"]
PartialFile == [kind |-> "partial"]
JsonFile(doc) == [kind |-> "json", data |-> doc]

(***************************************************************************)
(* utils/retry.py: the outcome of retry_with_exponential_backoff on a      *)
(* call that fails `fails` times with a retryable error before it would    *)
(* succeed: attempts 0..max_retries are made, the last failure is raised.  *)
(***************************************************************************)
RetrySucceeds(fails, max_retries) == fails <= max_retries

(***************************************************************************)
(* Sitemaps.  A parsed sitemap document is its direct <sitemap><loc> and   *)
(* <url><loc> entries, in document order (NoUrl: a missing or empty loc).  *)
(* The web gives, for the root and for every child sitemap, how many       *)
(* transport failures precede a response and what the response holds.      *)
(***************************************************************************)
UrlD == <<"docs", "d">>
UrlE == <<"docs">>
UrlF == <<"blog", "docs", "f">>

Sm0 == <<"sitemap-0.xml">>
Sm1 == <<"sitemap-1.xml">>
SmDocs == <<"docs", "sitemap.xml">>
ChildLocs == {Sm0, Sm1, SmDocs}

\* "sitemap.xml" in loc.text: of the path segments in use, only the segment
\* "sitemap.xml" has it as a substring.
ContainsSitemapXml(loc) == \E i \in 1..Len(loc) : loc[i] = "sitemap.xml"

\* "/docs/" in loc.text or loc.text.endswith("/docs")
IsDocsPage(loc) ==
    \/ \E i \in 1..(Len(loc) - 1) : loc[i] = "docs"
    \/ (Len(loc) > 0 /\ loc[Len(loc)] = "docs")

ChildUrlLists(loc) ==
    IF loc = Sm0 THEN {<<UrlA>>, <<UrlA, UrlC, UrlB>>}
    ELSE IF loc = Sm1 THEN {<<UrlB>>, <<UrlD, UrlE, UrlF>>}
    ELSE {<<UrlC>>, <<UrlB, NoUrl>>}

ChildDocs(loc) ==
    [fails : {0, NestedMaxRetries + 1}, malformed : {FALSE}, urls : ChildUrlLists(loc)]
        \cup [fails : {0}, malformed : {TRUE}, urls : {<<>>}]

RootDocs ==
    [fails : {0, SitemapMaxRetries + 1}, malformed : {FALSE},
     sitemaps : SeqsUpTo(ChildLocs, MaxRootSitemaps),
     urls : SeqsUpTo({UrlA, UrlC, UrlE}, MaxRootUrls)]
        \cup [fails : {0}, malformed : {TRUE}, sitemaps : {<<>>}, urls : {<<>>}]

Webs ==
    [root : RootDocs,
     child : {f \in [ChildLocs -> UNION {ChildDocs(l) : l \in ChildLocs}] :
                 \A l \in ChildLocs : f[l] \in ChildDocs(l)}]

NonEmptyLocs(locs) == SelectSeq(locs, LAMBDA u : u # NoUrl)

\* _fetch_nested_sitemap: every url/loc of the child; [] on any failure.
fetch_nested_sitemap(web, loc) ==
    LET d == web.child[loc]
    IN  IF RetrySucceeds(d.fails, NestedMaxRetries) /\ ~d.malformed
        THEN NonEmptyLocs(d.urls)
        ELSE <<>>

\* The guard of the sitemap-index loop of fetch_sitemap.
FollowsChild(loc) == loc # NoUrl /\ ~ContainsSitemapXml(loc)

RECURSIVE NestedAll(_, _)
NestedAll(web, locs) ==
    IF locs = <<>> THEN <<>>
    ELSE (IF FollowsChild(Head(locs)) THEN fetch_nested_sitemap(web, Head(locs)) ELSE <<>>)
             \o NestedAll(web, Tail(locs))

\* fetch_sitemap: raised, or the list of discovered URLs.
fetch_sitemap(web) ==
    IF RetrySucceeds(web.root.fails, SitemapMaxRetries) /\ ~web.root.malformed
    THEN [raised |-> FALSE,
          urls |-> NestedAll(web, web.root.sitemaps)
                       \o SelectSeq(web.root.urls, LAMBDA u : u # NoUrl /\ IsDocsPage(u))]
    ELSE [raised |-> TRUE, urls |-> <<>>]

(***************************************************************************)
(* state_manager.py: CrawlState, EmbedState and UploadState.               *)
(***************************************************************************)
sm_NewCrawlState ==
    [urls_discovered |-> <<>>, urls_completed |-> <<>>, urls_failed |-> EmptyDict,
     total_pages |-> 0, completed_pages |-> 0]

sm_mark_completed(st, url) ==
    IF url \notin Range(st.urls_completed)
    THEN [st EXCEPT !.urls_completed = Append(@, url), !.completed_pages = @ + 1]
    ELSE st

sm_mark_failed_uncomplete(st, url, error) ==
    [st EXCEPT !.urls_failed = DictPut(@, url, error),
               !.urls_completed = SelectSeq(@, LAMBDA u : u # url)]

sm_mark_failed(st, url, error) ==
    [st EXCEPT !.urls_failed = DictPut(@, url, error)]

\* BaseState.to_dict / from_dict of a CrawlState: the JSON document and back;
\* a field the document lacks takes its default.
to_dict(st) ==
    [urls_discovered |-> st.urls_discovered, urls_completed |-> st.urls_completed,
     urls_failed |-> st.urls_failed, total_pages |-> st.total_pages,
     completed_pages |-> st.completed_pages]

from_dict(data) ==
    [urls_discovered |-> DictGet(data, "urls_discovered", <<>>),
     urls_completed |-> DictGet(data, "urls_completed", <<>>),
     urls_failed |-> DictGet(data, "urls_failed", EmptyDict),
     total_pages |-> DictGet(data, "total_pages", 0),
     completed_pages |-> DictGet(data, "completed_pages", 0)]

NewEmbedState ==
    [chunks_processed |-> <<>>, chunks_failed |-> EmptyDict, total_chunks |-> 0,
     completed_chunks |-> 0, batch_size |-> 96]

mark_processed(st, chunk_ids) ==
    [st EXCEPT !.chunks_processed = @ \o chunk_ids,
               !.completed_chunks = @ + Len(chunk_ids)]

embed_mark_failed(st, chunk_id, error) ==
    [st EXCEPT !.chunks_failed = DictPut(@, chunk_id, error)]

NewUploadState ==
    [vectors_uploaded |-> <<>>, vectors_failed |-> EmptyDict, total_vectors |-> 0,
     completed_vectors |-> 0, batch_size |-> 100]

mark_uploaded(st, vector_ids) ==
    [st EXCEPT !.vectors_uploaded = @ \o vector_ids,
               !.completed_vectors = @ + Len(vector_ids)]

upload_mark_failed(st, vector_id, error) ==
    [st EXCEPT !.vectors_failed = DictPut(@, vector_id, error)]

(***************************************************************************)
(* Page fetches.  One attempt of fetch_page ends "ok" or with one of the   *)
(* errors; only aiohttp.ClientError (raise_for_status: HTTP404) and        *)
(* asyncio.TimeoutError are in the exceptions tuple of the retry.          *)
(***************************************************************************)
ErrorKinds == {"HTTP404", "Timeout", "Decode"}

Retryable(kind) == kind \in {"HTTP404", "Timeout"}

\* str(e): a ClientResponseError names its status and URL, the others do not.
NoErr == [kind |-> "None", url |-> NoUrl]

ErrMsg(kind, url) ==
    IF kind = "HTTP404" THEN [kind |-> "404", url |-> url] ELSE [kind |-> kind, url |-> NoUrl]

\* asyncio.Semaphore(max_concurrent_requests): acquire passes while value > 0.
CanAcquireAlways(value) == TRUE

CanAcquire(value) == value > 0

\* pending_urls = [url for url in urls if not self.state.is_completed(url)]
PendingFilterNone(st, us) == us

PendingFilter(st, us) == SelectSeq(us, LAMBDA u : ~is_completed(st, u))

\* pending_urls[:max_pages], taken when max_pages is truthy
Limit(us, max_pages) ==
    IF max_pages # 0 /\ max_pages < Len(us) THEN SubSeq(us, 1, max_pages) ELSE us

\* state_manager._load_state: the file's state, or the default when the
\* file is absent or cannot be parsed.
LoadState(file) == IF file.kind = "json" THEN from_dict(file.data) ELSE sm_NewCrawlState

\* except Exception in fetch_sitemap: log and re-raise.
OnSitemapErrorSwallow == "return_empty"

OnSitemapError == "raise"

VARIABLES
    pc,                \* position of the crawl command's main task
    exitCode,          \* exit code of the last run (-1: none yet)
    runs,              \* crawl command runs started
    args,              \* [urls_given, urls, resume, max_pages] of the run
    stateFile,         \* data/state/crawl_state.json
    fileAtStart,       \* stateFile when the run started
    state,             \* crawler.state
    urls,              \* urls_to_crawl
    pending,           \* pending_urls of crawl_all
    tasks,             \* the crawl_with_semaphore tasks, one per pending URL
    sem,               \* value of the semaphore
    completed,         \* crawl_all's returned completed list
    failed,            \* crawl_all's returned failed dict
    smState,           \* state_manager.states["crawl"]
    cache,             \* URLs with a cache pair in data/cache/extracted
    extractIdx,        \* position of the extraction loop of run_crawl
    failed_extraction, \* URLs whose extraction failed in this run
    sitemapFailed,     \* fetch_sitemap failed in this run
    objs,              \* the state objects of a stage run: crawler, crawl, embed, upload
    opCount,           \* state operations applied so far
    smWeb,             \* the site fetch_sitemap is pointed at
    smResult,          \* the URLs fetch_sitemap returned
    smPc,              \* "start", "done" or "raised"
    ePc,               \* position of the embed command: "idle", "batch" or "exit"
    eExit,             \* exit code of the last embed run (-1: none yet)
    eRuns,             \* embed command runs started
    eArgs,             \* [resume, max_chunks, json, batch_size] of the run
    eInput,            \* the cached documents and the chunks the chunker makes of them
    eChunks,           \* all_chunks handed to embed_chunks
    eI,                \* i of the batch loop of embed_chunks
    eAttempt,          \* attempt of the retry loop of embed_texts
    eStep,             \* where the round of the batch loop is: "loop", "slept", "sent" or "backoff"
    eInFlight,         \* values of i whose provider request is out and unanswered
    eSent,             \* the batches a first request was sent for, in order
    eCalls,            \* provider calls made for the batch at eI
    eEmbeddings,       \* embeddings of embed_chunks
    eProvided,         \* the vectors the provider returned, per text, for the embedded batches
    eError,            \* the exception that left embed_chunks ("none": no exception)
    eMismatchAt,       \* i of the batch for which a vector of the wrong length came back (-1: none)
    eReturned,         \* embed_chunks returned normally in this run
    eState,            \* state_manager.states["embed"]
    embedStateFile,    \* data/state/embed_state.json
    jsonlFile,         \* data/embeddings.jsonl
    uPc,               \* position of the upload command
    uExit,             \* exit code of the last upload run (-1: none yet)
    uRuns,             \* upload command runs started
    uArgs,             \* [recreate, resume, json] of the run
    uEmbeddings,       \* chunk ids of the embeddings handed to upload_embeddings
    uInput,            \* chunk ids of the records of the input file, in order
    uI,                \* i of the batch loop of upload_embeddings
    uJ,                \* position in the batch of the per-record loop (0: not in it)
    uAttempt,          \* attempt of the retry loop of _upload_batch
    uploaded_ids,      \* uploaded_ids of upload_embeddings
    uFailed,           \* failed of upload_embeddings
    uReturned,         \* upload_embeddings returned in this run
    uState,            \* state_manager.states["upload"]
    uploadStateFile,   \* data/state/upload_state.json
    collection,        \* the collection in the vector store
    uExisted,          \* collection_name in collection_names, as create_collection saw it
    uCreated,          \* what create_collection returned ("none": it has not returned)
    uLog,              \* the store calls create_collection made in this run, in order
    upserts,           \* the [id, chunk_id] pairs of the points sent in upsert calls
    acked,             \* chunk ids that were in an acknowledged upsert call of this run
    permFailed,        \* chunk ids whose single-record upsert failed on every attempt
    batchTried,        \* values of i for which the batch upsert was attempted
    uNacked,           \* an upsert attempt of the run was not acknowledged
    rPc,               \* "start" or "done": a VectorRecord construction
    rInput,            \* the arguments of the construction
    rResult,           \* the record, or the error raised
    kPc,               \* "start" or "done": a chunk_document call
    kInput,            \* the document text and the chunker configuration
    kSplit,            \* the chunk texts _split_text returned
    kSeeds,            \* the chunks closed inside the loop of _split_text
    kResult,           \* the chunks returned, or the error raised
    nPc,               \* "idle", "start", "once" or "twice": calls of _normalize_text
    nInput,            \* the raw text
    nOnce,             \* _normalize_text(nInput)
    nTwice,            \* _normalize_text(nOnce)
    dPc,               \* "idle", "start", "extracted", "cached", "loaded" or "raised": a page on its way through the cache
    dInput,            \* the text the extractor got from the page
    dDoc,              \* the DocumentPage of extract
    dCache,            \* the .txt and .meta.json files of the page
    dLoaded,           \* the DocumentPage of load_cached_documents
    tPc,               \* "idle", "open", "saved" or "loaded": a state object saved and loaded again
    tObj,              \* the state object of the stage, with its last_updated
    tOps,              \* state operations applied to tObj
    tFile,             \* the state file of the stage
    tLoaded,           \* the state object a fresh StateManager loads
    gPc,               \* position of generate_response: "idle", "embed", "search", "check", "llm", "respond" or "returned"
    gPage,             \* page_context (<<>>: None)
    gEmbedded,         \* the query embedding was made
    gChunks,           \* retrieved_chunks
    gSteps,            \* the steps of retrieval and generation that raised
    gAnswer,           \* what _generate_answer_with_context returned
    gResponse,         \* the Response returned, or the exception that left generate_response
    bPc,               \* retry_with_exponential_backoff: idle, call, sleep, returned or raised
    bArgs,             \* max_retries and what func does at each invocation
    bAttempt,          \* attempt of the for loop
    bLog,              \* the invocations of func and the sleeps, in order
    bOutcome,          \* what the call returned or raised, and the invocation it came from
    chat_sessions,     \* api/routes/chat.py: session id -> ChatSession (user_id, context)
    cHistory,          \* session id -> every entry appended to its context, in order
    cSeq,              \* number of exchanges added to a context so far
    cOp,               \* the last request: "none", "start", "message" or "history"
    cStatus            \* HTTP status of the last request (0 before the first)

crawlVars ==
    <<pc, exitCode, runs, args, stateFile, fileAtStart, state, urls, pending, tasks,
      sem, completed, failed, smState, cache, extractIdx, failed_extraction,
      sitemapFailed>>

objVars == <<objs, opCount>>

sitemapVars == <<smWeb, smResult, smPc>>

embedVars ==
    <<ePc, eExit, eRuns, eArgs, eInput, eChunks, eI, eAttempt, eStep, eInFlight, eSent,
      eCalls, eEmbeddings, eProvided, eError, eMismatchAt, eReturned, eState,
      embedStateFile, jsonlFile>>

uploadVars ==
    <<uPc, uExit, uRuns, uArgs, uEmbeddings, uInput, uI, uJ, uAttempt, uploaded_ids, uFailed,
      uReturned, uState, uploadStateFile, collection, uExisted, uCreated, uLog, upserts,
      acked, permFailed, batchTried, uNacked>>

recordVars == <<rPc, rInput, rResult>>

chunkVars == <<kPc, kInput, kSplit, kSeeds, kResult>>

normVars == <<nPc, nInput, nOnce, nTwice>>

docVars == <<dPc, dInput, dDoc, dCache, dLoaded>>

rtVars == <<tPc, tObj, tOps, tFile, tLoaded>>

ragVars == <<gPc, gPage, gEmbedded, gChunks, gSteps, gAnswer, gResponse>>

retryVars == <<bPc, bArgs, bAttempt, bLog, bOutcome>>

chatVars == <<chat_sessions, cHistory, cSeq, cOp, cStatus>>

\* The variables of the pipeline commands, and those of the library calls.
stageVars ==
    <<crawlVars, objVars, sitemapVars, embedVars, uploadVars, recordVars, chunkVars>>

libVars == <<normVars, docVars, rtVars, ragVars, retryVars, chatVars>>

vars == <<stageVars, libVars>>

NewObjs ==
    [crawler |-> NewCrawlState, crawl |-> sm_NewCrawlState, embed |-> NewEmbedState,
     upload |-> NewUploadState]

\* The variables of the other specifications at rest.
ObjsIdle == objs = NewObjs /\ opCount = 0

SitemapIdle == smWeb = <<>> /\ smResult = <<>> /\ smPc = "idle"

EmbedIdle ==
    /\ ePc = "idle"
    /\ eExit = -1
    /\ eRuns = 0
    /\ eArgs = [resume |-> FALSE, max_chunks |-> 0, json |-> FALSE, batch_size |-> 1]
    /\ eInput = [documents |-> 0, chunks |-> <<>>]
    /\ eChunks = <<>>
    /\ eI = 0
    /\ eAttempt = 0
    /\ eStep = "loop"
    /\ eInFlight = {}
    /\ eSent = <<>>
    /\ eCalls = 0
    /\ eEmbeddings = <<>>
    /\ eProvided = <<>>
    /\ eError = "none"
    /\ eMismatchAt = -1
    /\ eReturned = FALSE
    /\ eState = NewEmbedState
    /\ embedStateFile = NoFile
    /\ jsonlFile = NoFile

NoCollection == [exists |-> FALSE]

UploadRest ==
    /\ uPc = "idle"
    /\ uExit = -1
    /\ uRuns = 0
    /\ uArgs = [recreate |-> FALSE, resume |-> FALSE, json |-> FALSE]
    /\ uEmbeddings = <<>>
    /\ uInput = <<>>
    /\ uI = 0
    /\ uJ = 0
    /\ uAttempt = 0
    /\ uploaded_ids = <<>>
    /\ uFailed = EmptyDict
    /\ uReturned = FALSE
    /\ uState = NewUploadState
    /\ uploadStateFile = NoFile
    /\ uExisted = FALSE
    /\ uCreated = "none"
    /\ uLog = <<>>
    /\ upserts = {}
    /\ acked = {}
    /\ permFailed = {}
    /\ batchTried = {}
    /\ uNacked = FALSE

UploadIdle == UploadRest /\ collection = NoCollection

RecordIdle == rPc = "idle" /\ rInput = <<>> /\ rResult = <<>>

ChunkIdle ==
    kPc = "idle" /\ kInput = <<>> /\ kSplit = <<>> /\ kSeeds = <<>> /\ kResult = <<>>

NormIdle == nPc = "idle" /\ nInput = <<>> /\ nOnce = <<>> /\ nTwice = <<>>

DocIdle ==
    /\ dPc = "idle"
    /\ dInput = <<>>
    /\ dDoc = <<>>
    /\ dCache = <<>>
    /\ dLoaded = <<>>

RtIdle ==
    /\ tPc = "idle"
    /\ tObj = <<>>
    /\ tOps = 0
    /\ tFile = NoFile
    /\ tLoaded = <<>>

RagIdle ==
    /\ gPc = "idle"
    /\ gPage = <<>>
    /\ gEmbedded = FALSE
    /\ gChunks = <<>>
    /\ gSteps = {}
    /\ gAnswer = ""
    /\ gResponse = <<>>

RetryIdle ==
    /\ bPc = "idle"
    /\ bArgs = <<>>
    /\ bAttempt = 0
    /\ bLog = <<>>
    /\ bOutcome = <<>>

\* The chat routes before the first request.
ChatIdle ==
    /\ chat_sessions = <<>>
    /\ cHistory = <<>>
    /\ cSeq = 0
    /\ cOp = "none"
    /\ cStatus = 0

\* The library calls at rest.
LibsIdle == NormIdle /\ DocIdle /\ RtIdle /\ RagIdle /\ RetryIdle /\ ChatIdle

\* The commands at rest.
StagesIdle == EmbedIdle /\ UploadIdle /\ RecordIdle /\ ChunkIdle /\ LibsIdle

\* Variables of the other specifications, untouched by the crawl command.
CrawlFrame == UNCHANGED <<objVars, sitemapVars, embedVars, uploadVars, recordVars, chunkVars,
                 libVars>>

ProvidedLists == SeqsUpTo(URLS, MaxUrls) \ {<<>>}

ArgSets ==
    [urls_given : {TRUE}, urls : ProvidedLists, resume : BOOLEAN, max_pages : 0..MaxPagesArg]
        \cup [urls_given : {FALSE}, urls : {<<>>}, resume : BOOLEAN,
              max_pages : 0..MaxPagesArg]

NoArgs == [urls_given |-> FALSE, urls |-> <<>>, resume |-> FALSE, max_pages |-> 0]

\* The sites the crawl command is pointed at: a flat sitemap, a sitemap index
\* with one child, a root sitemap that cannot be fetched and one that cannot
\* be parsed.
FlatWeb(fails) ==
    [root |-> [fails |-> fails, malformed |-> FALSE, sitemaps |-> <<>>, urls |-> <<UrlA>>],
     child |-> [l \in ChildLocs |->
                  [fails |-> 0, malformed |-> FALSE,
                   urls |-> CHOOSE us \in ChildUrlLists(l) : Len(us) = 1]]]

IndexWeb ==
    [FlatWeb(0) EXCEPT !.root.sitemaps = <<Sm1>>]

MalformedWeb ==
    [FlatWeb(0) EXCEPT !.root.malformed = TRUE, !.root.urls = <<>>]

CrawlWebs == {FlatWeb(0), FlatWeb(SitemapMaxRetries + 1), IndexWeb, MalformedWeb}

NewTask == [st |-> "waiting", attempt |-> 0, err |-> "None", res_url |-> NoUrl, res_err |-> NoErr]

Running == {"sitemap", "crawl_all", "gather", "saving", "extract", "final_save"}

InitCrawl ==
    /\ pc = "idle"
    /\ exitCode = -1
    /\ runs = 0
    /\ args = NoArgs
    /\ stateFile = NoFile
    /\ fileAtStart = NoFile
    /\ state = NewCrawlState
    /\ urls = <<>>
    /\ pending = <<>>
    /\ tasks = <<>>
    /\ sem = MaxConcurrentRequests
    /\ completed = <<>>
    /\ failed = EmptyDict
    /\ smState = sm_NewCrawlState
    /\ cache = {}
    /\ extractIdx = 0
    /\ failed_extraction = {}
    /\ sitemapFailed = FALSE

\* main(): a run of the crawl command starts with a new crawler and state manager.
StartRun ==
    /\ pc \in {"idle", "exit"}
    /\ runs < MaxRuns
    /\ \E a \in ArgSets :
        /\ args' = a
        /\ urls' = a.urls
        /\ pc' = IF a.urls_given THEN "crawl_all" ELSE "sitemap"
    /\ runs' = runs + 1
    /\ exitCode' = -1
    /\ fileAtStart' = stateFile
    /\ state' = NewCrawlState
    /\ pending' = <<>>
    /\ tasks' = <<>>
    /\ sem' = MaxConcurrentRequests
    /\ completed' = <<>>
    /\ failed' = EmptyDict
    /\ smState' = sm_NewCrawlState
    /\ extractIdx' = 0
    /\ failed_extraction' = {}
    /\ sitemapFailed' = FALSE
    /\ UNCHANGED <<stateFile, cache>>
    /\ CrawlFrame

\* run_crawl: urls_to_crawl = await crawler.fetch_sitemap()
FetchSitemap ==
    /\ pc = "sitemap"
    /\ \E w \in CrawlWebs :
        LET r == fetch_sitemap(w)
        IN  IF r.raised
            THEN /\ sitemapFailed' = TRUE
                 /\ IF OnSitemapError = "raise"
                    THEN pc' = "exit" /\ exitCode' = 1
                    ELSE pc' = "crawl_all" /\ exitCode' = exitCode
                 /\ urls' = <<>>
            ELSE /\ urls' = r.urls
                 /\ pc' = "crawl_all"
                 /\ UNCHANGED <<exitCode, sitemapFailed>>
    /\ UNCHANGED <<runs, args, stateFile, fileAtStart, state, pending, tasks, sem,
                   completed, failed, smState, cache, extractIdx, failed_extraction>>
    /\ CrawlFrame

\* crawl_all up to asyncio.gather: load the state when resuming, filter, limit.
CrawlAllBegin ==
    /\ pc = "crawl_all"
    /\ IF args.resume /\ stateFile.kind = "partial"
       THEN \* json.loads raises on the truncated file
            /\ pc' = "exit"
            /\ exitCode' = 1
            /\ UNCHANGED <<state, pending, tasks>>
       ELSE LET loaded == IF args.resume /\ stateFile.kind = "json"
                          THEN from_json(stateFile.data)
                          ELSE state
                pend == Limit(PendingFilter(loaded, urls), args.max_pages)
            IN  /\ state' = [loaded EXCEPT !.urls_discovered = urls,
                                           !.total_pages = Len(urls)]
                /\ pending' = pend
                /\ tasks' = [i \in 1..Len(pend) |-> NewTask]
                /\ pc' = "gather"
                /\ UNCHANGED exitCode
    /\ UNCHANGED <<runs, args, stateFile, fileAtStart, urls, sem, completed, failed,
                   smState, cache, extractIdx, failed_extraction, sitemapFailed>>
    /\ CrawlFrame

TaskFrame ==
    /\ UNCHANGED <<pc, exitCode, runs, args, stateFile, fileAtStart, urls, pending,
                   completed, failed, smState, cache, extractIdx, failed_extraction,
                   sitemapFailed>>
    /\ CrawlFrame

\* What a task does first with its slot: await asyncio.sleep(delay).
AfterAcquireNoSleep == "fetching"

AfterAcquire == "sleeping"

\* async with semaphore: waiters are served in task order.
Acquire(i) ==
    /\ pc = "gather"
    /\ tasks[i].st = "waiting"
    /\ \A j \in 1..(i - 1) : tasks[j].st # "waiting"
    /\ CanAcquire(sem)
    /\ sem' = sem - 1
    /\ tasks' = [tasks EXCEPT ![i].st = AfterAcquire]
    /\ UNCHANGED state
    /\ TaskFrame

\* await asyncio.sleep(delay) is over: fetch_page issues the first request.
IssueRequest(i) ==
    /\ pc = "gather"
    /\ tasks[i].st = "sleeping"
    /\ tasks' = [tasks EXCEPT ![i].st = "fetching"]
    /\ UNCHANGED <<state, sem>>
    /\ TaskFrame

\* The attempt succeeds: mark_completed, return (url, None), release the slot.
FetchOk(i) ==
    /\ pc = "gather"
    /\ tasks[i].st = "fetching"
    /\ state' = mark_completed(state, pending[i])
    /\ tasks' = [tasks EXCEPT ![i].st = "done", ![i].err = "None",
                              ![i].res_url = pending[i]]
    /\ sem' = sem + 1
    /\ TaskFrame

\* The attempt fails: the retry sleeps before the next attempt, or the error
\* reaches the except clause of the task: mark_failed, return (None, str(e)).
FetchError(i) ==
    /\ pc = "gather"
    /\ tasks[i].st = "fetching"
    /\ \E kind \in ErrorKinds :
        IF Retryable(kind) /\ tasks[i].attempt < PageMaxRetries
        THEN /\ tasks' = [tasks EXCEPT ![i].st = "backoff", ![i].err = kind]
             /\ UNCHANGED <<state, sem>>
        ELSE /\ state' = mark_failed(state, pending[i], ErrMsg(kind, pending[i]))
             /\ tasks' = [tasks EXCEPT ![i].st = "done", ![i].err = kind,
                                       ![i].res_err = ErrMsg(kind, pending[i])]
             /\ sem' = sem + 1
    /\ TaskFrame

\* The backoff sleep is over: the next attempt is issued.
Retry(i) ==
    /\ pc = "gather"
    /\ tasks[i].st = "backoff"
    /\ tasks' = [tasks EXCEPT ![i].st = "fetching", ![i].attempt = @ + 1]
    /\ UNCHANGED <<state, sem>>
    /\ TaskFrame

\* await asyncio.gather(...) returns when every task has returned.
AllDoneOrNot == TRUE

AllDone == \A i \in 1..Len(tasks) : tasks[i].st = "done"

\* state_path.write_text(...) opens the file for writing, which truncates it.
SaveBegin ==
    /\ pc = "gather"
    /\ AllDone
    /\ stateFile' = PartialFile
    /\ pc' = "saving"
    /\ UNCHANGED <<exitCode, runs, args, fileAtStart, state, urls, pending, tasks, sem,
                   completed, failed, smState, cache, extractIdx, failed_extraction,
                   sitemapFailed>>
    /\ CrawlFrame

RECURSIVE FailedDict(_, _)
FailedDict(ts, n) ==
    IF n = 0 THEN EmptyDict
    ELSE IF ts[n].res_url = NoUrl
         THEN DictPut(FailedDict(ts, n - 1), ts[n].res_err, ts[n].res_err)
         ELSE FailedDict(ts, n - 1)

RECURSIVE CompletedList(_, _)
CompletedList(ts, n) ==
    IF n = 0 THEN <<>>
    ELSE IF ts[n].res_url # NoUrl
         THEN Append(CompletedList(ts, n - 1), ts[n].res_url)
         ELSE CompletedList(ts, n - 1)

\* The write completes; crawl_all separates the results and returns; run_crawl
\* gets the crawl state from the state manager, which loads the file.
SaveEnd ==
    /\ pc = "saving"
    /\ stateFile' = JsonFile(to_json(state))
    /\ completed' = CompletedList(tasks, Len(tasks))
    /\ failed' = FailedDict(tasks, Len(tasks))
    /\ smState' = LoadState(stateFile')
    /\ extractIdx' = 1
    /\ pc' = "extract"
    /\ UNCHANGED <<exitCode, runs, args, fileAtStart, state, urls, pending, tasks, sem,
                   cache, failed_extraction, sitemapFailed>>
    /\ CrawlFrame

\* One round of the extraction loop: fetch the page again, extract, cache.
ExtractPage ==
    /\ pc = "extract"
    /\ extractIdx <= Len(completed)
    /\ \E ok \in BOOLEAN :
        IF ok
        THEN cache' = cache \cup {completed[extractIdx]} /\ UNCHANGED failed_extraction
        ELSE failed_extraction' = failed_extraction \cup {completed[extractIdx]}
             /\ UNCHANGED cache
    /\ extractIdx' = extractIdx + 1
    /\ UNCHANGED <<pc, exitCode, runs, args, stateFile, fileAtStart, state, urls, pending,
                   tasks, sem, completed, failed, smState, sitemapFailed>>
    /\ CrawlFrame

\* state_manager.save_state("crawl"): write_text truncates the file first.
FinalSaveBegin ==
    /\ pc = "extract"
    /\ extractIdx > Len(completed)
    /\ stateFile' = PartialFile
    /\ pc' = "final_save"
    /\ UNCHANGED <<exitCode, runs, args, fileAtStart, state, urls, pending, tasks, sem,
                   completed, failed, smState, cache, extractIdx, failed_extraction,
                   sitemapFailed>>
    /\ CrawlFrame

\* The write completes and main exits with the code of the summary.
FinalSaveEnd ==
    /\ pc = "final_save"
    /\ stateFile' = JsonFile(to_dict(smState))
    /\ pc' = "exit"
    /\ exitCode' = IF DOMAIN failed = {} /\ failed_extraction = {} THEN 0 ELSE 1
    /\ UNCHANGED <<runs, args, fileAtStart, state, urls, pending, tasks, sem, completed,
                   failed, smState, cache, extractIdx, failed_extraction, sitemapFailed>>
    /\ CrawlFrame

\* KeyboardInterrupt: main logs "crawl_cancelled" and exits with 130.
Interrupt ==
    /\ pc \in Running
    /\ pc' = "exit"
    /\ exitCode' = 130
    /\ UNCHANGED <<runs, args, stateFile, fileAtStart, state, urls, pending, tasks, sem,
                   completed, failed, smState, cache, extractIdx, failed_extraction,
                   sitemapFailed>>
    /\ CrawlFrame

\* The process is killed during a state save (a kill at any other point
\* leaves the disk as an interrupt does).
Crash ==
    /\ pc \in {"saving", "final_save"}
    /\ pc' = "exit"
    /\ exitCode' = 137
    /\ UNCHANGED <<runs, args, stateFile, fileAtStart, state, urls, pending, tasks, sem,
                   completed, failed, smState, cache, extractIdx, failed_extraction,
                   sitemapFailed>>
    /\ CrawlFrame

TaskStep ==
    \E i \in 1..Len(tasks) :
        Acquire(i) \/ IssueRequest(i) \/ FetchOk(i) \/ FetchError(i) \/ Retry(i)

Next ==
    \/ StartRun
    \/ FetchSitemap
    \/ CrawlAllBegin
    \/ TaskStep
    \/ SaveBegin
    \/ SaveEnd
    \/ ExtractPage
    \/ FinalSaveBegin
    \/ FinalSaveEnd
    \/ Interrupt
    \/ Crash

Init == InitCrawl /\ ObjsIdle /\ SitemapIdle /\ StagesIdle

Spec == Init /\ [][Next]_vars

(***************************************************************************)
(* The state objects under any sequence of their operations.               *)
(***************************************************************************)
MaxOps == 3                  \* state operations in one behaviour
MaxBatch == 2                \* ids passed to one mark_processed / mark_uploaded

IDS == {"x1", "x2"}

ERRORS == {"e1", "e2"}

ObjFrame == UNCHANGED <<crawlVars, sitemapVars, embedVars, uploadVars, recordVars, chunkVars,
                 libVars>>

OpStep(o) ==
    /\ opCount < MaxOps
    /\ objs' = o
    /\ opCount' = opCount + 1
    /\ ObjFrame

CrawlerMarkCompleted ==
    \E u \in URLS : OpStep([objs EXCEPT !.crawler = mark_completed(@, u)])

CrawlerMarkFailed ==
    \E u \in URLS, k \in ErrorKinds :
        OpStep([objs EXCEPT !.crawler = mark_failed(@, u, ErrMsg(k, u))])

CrawlMarkCompleted ==
    \E u \in URLS : OpStep([objs EXCEPT !.crawl = sm_mark_completed(@, u)])

CrawlMarkFailed ==
    \E u \in URLS, e \in ERRORS : OpStep([objs EXCEPT !.crawl = sm_mark_failed(@, u, e)])

EmbedMarkProcessed ==
    \E ids \in SeqsUpTo(IDS, MaxBatch) :
        OpStep([objs EXCEPT !.embed = mark_processed(@, ids)])

EmbedMarkFailed ==
    \E c \in IDS, e \in ERRORS : OpStep([objs EXCEPT !.embed = embed_mark_failed(@, c, e)])

UploadMarkUploaded ==
    \E ids \in SeqsUpTo(IDS, MaxBatch) :
        OpStep([objs EXCEPT !.upload = mark_uploaded(@, ids)])

UploadMarkFailed ==
    \E v \in IDS, e \in ERRORS :
        OpStep([objs EXCEPT !.upload = upload_mark_failed(@, v, e)])

NextState ==
    \/ CrawlerMarkCompleted
    \/ CrawlerMarkFailed
    \/ CrawlMarkCompleted
    \/ CrawlMarkFailed
    \/ EmbedMarkProcessed
    \/ EmbedMarkFailed
    \/ UploadMarkUploaded
    \/ UploadMarkFailed

InitState == InitCrawl /\ ObjsIdle /\ SitemapIdle /\ StagesIdle

SpecState == InitState /\ [][NextState]_vars

(***************************************************************************)
(* Sitemap discovery on any site.                                          *)
(***************************************************************************)
SitemapFrame == UNCHANGED <<crawlVars, objVars, embedVars, uploadVars, recordVars, chunkVars,
                 libVars>>

DiscoverUrls ==
    /\ smPc = "start"
    /\ LET r == fetch_sitemap(smWeb)
       IN  /\ smResult' = r.urls
           /\ smPc' = IF r.raised THEN "raised" ELSE "done"
    /\ UNCHANGED smWeb
    /\ SitemapFrame

NextSitemap == DiscoverUrls

InitSitemap ==
    /\ InitCrawl
    /\ ObjsIdle
    /\ StagesIdle
    /\ smWeb \in Webs
    /\ smResult = <<>>
    /\ smPc = "start"

SpecSitemap == InitSitemap /\ [][NextSitemap]_vars

(***************************************************************************)
(* The embed command (cli/embed.py) and CohereEmbedder                     *)
(* (services/embedder.py).                                                 *)
(***************************************************************************)
MaxEmbedRuns == 2            \* embed command runs in one behaviour
MaxBatchSize == 2            \* largest cohere_batch_size
MaxChunksArg == 2            \* the --max-chunks value tried (0 stands for "not set")

EmbedMaxRetries == 5         \* embed_texts: max_retries=5
EmbeddingDim == 1024         \* Embedding.vector: exactly 1024 dimensions

Min(a, b) == IF a <= b THEN a ELSE b

\* Chunk ids in the order chunk_documents emits them; two chunks may carry
\* the same text.
CHUNKS == {"c1", "c2", "c3"}

TextOf(chunk_id) == IF chunk_id = "c2" THEN "t2" ELSE "t1"

\* load_cached_documents and chunk_documents: the documents of the cache and
\* the chunks made of them.
CachedInputs ==
    {[documents |-> 0, chunks |-> <<>>],
     [documents |-> 1, chunks |-> <<>>],
     [documents |-> 1, chunks |-> <<"c1", "c2">>],
     [documents |-> 2, chunks |-> <<"c1", "c2", "c3">>]}

EmbedArgSets ==
    [resume : BOOLEAN, max_chunks : {0, MaxChunksArg}, json : BOOLEAN,
     batch_size : 1..MaxBatchSize]

\* str(i) for the indices of a batch.
Str(i) == <<"0", "1", "2", "3", "4", "5", "6", "7", "8", "9">>[i + 1]

\* A vector is the text it was computed for and its length.
Vector(text, length) == [of |-> text, len |-> length]

NoVector == [of |-> "none", len |-> 0]

\* What a provider may compute for the texts of a request: a vector of the
\* configured length for every text; the same with one vector one short; or
\* vectors for all texts but the last.
ProviderVectors(texts) ==
    LET good == [j \in 1..Len(texts) |-> Vector(texts[j], EmbeddingDim)]
    IN  {good}
            \cup {[good EXCEPT ![b] = Vector(texts[b], EmbeddingDim - 1)] :
                     b \in 1..Len(texts)}
            \cup {SubSeq(good, 1, Len(texts) - 1)}

\* The "embeddings" member of the response body in each of its shapes.  An
\* object is its set of keys, the value under "float" and the values under
\* the keys str(0), str(1), ... in the order of these keys.
Shapes == {"list", "float", "indexed", "missing", "null"}

EncodeEmbeddings(shape, vs) ==
    IF shape = "list" THEN [type |-> "list", value |-> vs, keys |-> {}]
    ELSE IF shape = "float" THEN [type |-> "dict", value |-> vs, keys |-> {"float"}]
    ELSE IF shape = "indexed"
         THEN [type |-> "dict", value |-> vs, keys |-> {Str(j - 1) : j \in 1..Len(vs)}]
    ELSE IF shape = "missing" THEN [type |-> "dict", value |-> <<>>, keys |-> {}]
    ELSE [type |-> "null", value |-> <<>>, keys |-> {}]

\* A response: the status is not 200 or the request fails in transport, or
\* a body with the vectors in one of the shapes.
Responses(texts) ==
    {[ok |-> FALSE, vs |-> <<>>, embeddings |-> EncodeEmbeddings("null", <<>>)]}
        \cup {[ok |-> TRUE, vs |-> vs, embeddings |-> EncodeEmbeddings(shape, vs)] :
                 shape \in Shapes, vs \in ProviderVectors(texts)}

\* _embed of embed_texts on a response to n texts: an exception, or the
\* list of vectors taken from the body.
embed(rsp, n) ==
    IF ~rsp.ok THEN [raised |-> TRUE, embeddings |-> <<>>]
    ELSE LET raw == rsp.embeddings
         IN  IF raw.type = "dict"
             THEN IF "float" \in raw.keys
                  THEN [raised |-> FALSE, embeddings |-> raw.value]
                  ELSE IF \A i \in 0..(n - 1) : Str(i) \in raw.keys
                       THEN [raised |-> FALSE,
                             embeddings |-> [j \in 1..n |-> raw.value[j]]]
                       ELSE [raised |-> TRUE, embeddings |-> <<>>]
             ELSE IF raw.type = "list"
                  THEN [raised |-> FALSE, embeddings |-> raw.value]
                  ELSE [raised |-> TRUE, embeddings |-> <<>>]

\* retry_with_exponential_backoff: the attempt after which the error is raised.
RetryExhaustedLate(attempt, max_retries) == attempt = max_retries + 1

RetryExhausted(attempt, max_retries) == attempt = max_retries

\* Embedding.validate_vector_dimensions
validate_vector_dimensions_any(v) == TRUE

validate_vector_dimensions(v) == v.len = EmbeddingDim

\* Embedding(chunk_id=..., vector=..., chunk_ref=chunk); created_at is the
\* time of construction, which tells the runs apart.
Embedding(chunk_id, vector, now) ==
    [chunk_id |-> chunk_id, vector |-> vector, created_at |-> now, chunk_ref |-> chunk_id]

\* for chunk, vector in zip(batch, batch_embeddings): embeddings.append(Embedding(...))
\* The loop stops at the first vector the validator rejects.
ZipEmbeddings(batch, vectors, now) ==
    LET n == Min(Len(batch), Len(vectors))
        bad == {j \in 1..n : ~validate_vector_dimensions(vectors[j])}
        stop == IF bad = {} THEN n
                ELSE (CHOOSE j \in bad : \A k \in bad : j <= k) - 1
    IN  [raised |-> bad # {},
         embeddings |-> [j \in 1..stop |-> Embedding(batch[j], vectors[j], now)]]

\* chunks[i : i + self.batch_size]
Batch(chunks, i, batch_size) == SubSeq(chunks, i + 1, Min(i + batch_size, Len(chunks)))

\* BaseState.to_dict / from_dict of an EmbedState.
embed_to_dict(st) ==
    [chunks_processed |-> st.chunks_processed, chunks_failed |-> st.chunks_failed,
     total_chunks |-> st.total_chunks, completed_chunks |-> st.completed_chunks,
     batch_size |-> st.batch_size]

embed_from_dict(data) ==
    [chunks_processed |-> DictGet(data, "chunks_processed", <<>>),
     chunks_failed |-> DictGet(data, "chunks_failed", EmptyDict),
     total_chunks |-> DictGet(data, "total_chunks", 0),
     completed_chunks |-> DictGet(data, "completed_chunks", 0),
     batch_size |-> DictGet(data, "batch_size", 96)]

\* state_manager.get_embed_state
LoadEmbedState(file) ==
    IF file.kind = "json" THEN embed_from_dict(file.data) ELSE NewEmbedState

\* save_embeddings_to_jsonl: one record per embedding, in order.
save_embeddings_to_jsonl(embeddings) ==
    [j \in 1..Len(embeddings) |->
        [chunk_id |-> embeddings[j].chunk_id, vector |-> embeddings[j].vector,
         created_at |-> embeddings[j].created_at,
         text |-> TextOf(embeddings[j].chunk_ref)]]

EmbedFrame == UNCHANGED <<crawlVars, objVars, sitemapVars, uploadVars, recordVars, chunkVars,
                 libVars>>

\* main and run_embed up to the call of embed_chunks.  Without documents
\* run_embed returns a summary that has no output_path, which main prints
\* unless --json is given.
EmbedStart ==
    /\ ePc \in {"idle", "exit"}
    /\ eRuns < MaxEmbedRuns
    /\ eRuns' = eRuns + 1
    /\ \E a \in EmbedArgSets, inp \in CachedInputs :
        LET st == LoadEmbedState(embedStateFile)
            remaining == IF a.resume /\ st.chunks_processed # <<>>
                         THEN SelectSeq(inp.chunks,
                                        LAMBDA c : c \notin Range(st.chunks_processed))
                         ELSE inp.chunks
        IN  /\ eArgs' = a
            /\ eInput' = inp
            /\ IF inp.documents = 0
               THEN /\ ePc' = "exit"
                    /\ eExit' = IF a.json THEN 0 ELSE 1
                    /\ eChunks' = <<>>
                    /\ eState' = NewEmbedState
               ELSE /\ ePc' = "batch"
                    /\ eExit' = -1
                    /\ eChunks' = Limit(remaining, a.max_chunks)
                    /\ eState' = st
    /\ eI' = 0
    /\ eAttempt' = 0
    /\ eStep' = "loop"
    /\ eInFlight' = {}
    /\ eSent' = <<>>
    /\ eCalls' = 0
    /\ eEmbeddings' = <<>>
    /\ eProvided' = <<>>
    /\ eError' = "none"
    /\ eMismatchAt' = -1
    /\ eReturned' = FALSE
    /\ UNCHANGED <<embedStateFile, jsonlFile>>
    /\ EmbedFrame

\* The positions a request is sent from: the batch loop awaits
\* asyncio.sleep(self.request_delay) before embed_texts, and the retry sleeps
\* its backoff before the next attempt.
RequestAfterNoSleep == {"loop", "slept", "backoff"}

RequestAfter == {"slept", "backoff"}

\* The round for the batch at eI begins with the rate-limit sleep.
EmbedSleep ==
    /\ ePc = "batch"
    /\ eI < Len(eChunks)
    /\ eStep = "loop"
    /\ eStep' = "slept"
    /\ UNCHANGED <<ePc, eExit, eRuns, eArgs, eInput, eChunks, eI, eAttempt, eInFlight,
                   eSent, eCalls, eEmbeddings, eProvided, eError, eMismatchAt, eReturned,
                   eState, embedStateFile, jsonlFile>>
    /\ EmbedFrame

\* embed_texts sends the request of an attempt: the first one after the
\* rate-limit sleep, a later one after the backoff sleep of the retry.
EmbedRequest ==
    /\ ePc = "batch"
    /\ eI < Len(eChunks)
    /\ eStep \in RequestAfter
    /\ eStep' = "sent"
    /\ eInFlight' = eInFlight \cup {eI}
    /\ eSent' = IF eAttempt = 0
                THEN Append(eSent, Batch(eChunks, eI, eArgs.batch_size))
                ELSE eSent
    /\ UNCHANGED <<ePc, eExit, eRuns, eArgs, eInput, eChunks, eI, eAttempt, eCalls,
                   eEmbeddings, eProvided, eError, eMismatchAt, eReturned, eState,
                   embedStateFile, jsonlFile>>
    /\ EmbedFrame

\* The answer to the request of the batch at eI and what follows it: the
\* next attempt, the exception leaving embed_chunks (main exits with 1), or
\* the embeddings of the batch and the next round of the loop.
EmbedCall ==
    /\ ePc = "batch"
    /\ eI < Len(eChunks)
    /\ eStep = "sent"
    /\ eInFlight' = eInFlight \ {eI}
    /\ UNCHANGED eSent
    /\ LET batch == Batch(eChunks, eI, eArgs.batch_size)
           texts == [j \in 1..Len(batch) |-> TextOf(batch[j])]
       IN  \E rsp \in Responses(texts) :
            LET r == embed(rsp, Len(texts))
                z == ZipEmbeddings(batch, r.embeddings, eRuns)
            IN  /\ eCalls' = IF eAttempt = 0 THEN 1 ELSE eCalls + 1
                /\ IF r.raised
                   THEN IF RetryExhausted(eAttempt, EmbedMaxRetries)
                        THEN /\ ePc' = "exit"
                             /\ eExit' = 1
                             /\ eError' = "retry_exhausted"
                             /\ eStep' = "loop"
                             /\ UNCHANGED <<eI, eAttempt, eEmbeddings, eProvided,
                                            eMismatchAt>>
                        ELSE /\ eAttempt' = eAttempt + 1
                             /\ eStep' = "backoff"
                             /\ UNCHANGED <<ePc, eExit, eError, eI, eEmbeddings,
                                            eProvided, eMismatchAt>>
                   ELSE /\ eEmbeddings' = eEmbeddings \o z.embeddings
                        /\ eProvided' = eProvided \o
                               [j \in 1..Len(batch) |->
                                   IF j <= Len(rsp.vs) THEN rsp.vs[j] ELSE NoVector]
                        /\ eMismatchAt' =
                               IF \E j \in 1..Len(rsp.vs) : rsp.vs[j].len # EmbeddingDim
                               THEN eI ELSE eMismatchAt
                        /\ eStep' = "loop"
                        /\ IF z.raised
                           THEN /\ ePc' = "exit"
                                /\ eExit' = 1
                                /\ eError' = "validation"
                                /\ UNCHANGED <<eI, eAttempt>>
                           ELSE /\ eI' = eI + eArgs.batch_size
                                /\ eAttempt' = 0
                                /\ UNCHANGED <<ePc, eExit, eError>>
    /\ UNCHANGED <<eRuns, eArgs, eInput, eChunks, eReturned, eState, embedStateFile,
                   jsonlFile>>
    /\ EmbedFrame

\* embed_chunks returns; run_embed writes the JSONL file, marks the chunks
\* processed and saves the state; main prints the summary and exits with 0.
EmbedReturn ==
    /\ ePc = "batch"
    /\ eI >= Len(eChunks)
    /\ eReturned' = TRUE
    /\ jsonlFile' = JsonFile(save_embeddings_to_jsonl(eEmbeddings))
    /\ eState' = mark_processed(eState, [j \in 1..Len(eEmbeddings) |-> eEmbeddings[j].chunk_id])
    /\ embedStateFile' = JsonFile(embed_to_dict(eState'))
    /\ ePc' = "exit"
    /\ eExit' = 0
    /\ UNCHANGED <<eRuns, eArgs, eInput, eChunks, eI, eAttempt, eStep, eInFlight, eSent,
                   eCalls, eEmbeddings, eProvided, eError, eMismatchAt>>
    /\ EmbedFrame

\* KeyboardInterrupt: the request in flight is dropped, main logs
\* "embed_cancelled" and exits with 130.
EmbedInterrupt ==
    /\ ePc = "batch"
    /\ ePc' = "exit"
    /\ eExit' = 130
    /\ eStep' = "loop"
    /\ eInFlight' = {}
    /\ UNCHANGED <<eRuns, eArgs, eInput, eChunks, eI, eAttempt, eSent, eCalls, eEmbeddings,
                   eProvided, eError, eMismatchAt, eReturned, eState, embedStateFile,
                   jsonlFile>>
    /\ EmbedFrame

NextEmbed ==
    \/ EmbedStart
    \/ EmbedSleep
    \/ EmbedRequest
    \/ EmbedCall
    \/ EmbedReturn
    \/ EmbedInterrupt

InitEmbed == InitCrawl /\ ObjsIdle /\ SitemapIdle /\ StagesIdle

SpecEmbed == InitEmbed /\ [][NextEmbed]_vars

(***************************************************************************)
(* The upload command (cli/upload.py) and QdrantVectorStore                *)
(* (services/vector_store.py).                                             *)
(***************************************************************************)
MaxUploadRuns == 2           \* upload command runs in one behaviour
UploadBatchSize == 2         \* QdrantVectorStore.batch_size (100), scaled down

UploadMaxRetries == 5        \* _upload_batch: max_retries=5
EmbeddingDimensions == 1024  \* config.embedding_dimensions

\* The collection right after client.create_collection(size, distance).
Collection(size, distance) ==
    [exists |-> TRUE, size |-> size, distance |-> distance, url_index |-> FALSE,
     points |-> EmptyDict]

\* The store before the first run: no collection of this name, a collection
\* an earlier run made, or a collection made by other means.
InitialCollections ==
    {NoCollection,
     [Collection(EmbeddingDimensions, "COSINE") EXCEPT !.url_index = TRUE],
     Collection(EmbeddingDimensions - 1, "EUCLID")}

UploadArgSets == [recreate : BOOLEAN, resume : BOOLEAN, json : BOOLEAN]

\* The input file: missing, or the chunk ids of its records, in order.
UploadInputs ==
    {[exists |-> FALSE, ids |-> <<>>],
     [exists |-> TRUE, ids |-> <<>>],
     [exists |-> TRUE, ids |-> <<"c1", "c2">>],
     [exists |-> TRUE, ids |-> <<"c1", "c2", "c3">>]}

\* Embedding.to_vector_record: id=self.chunk_id
to_vector_record(chunk_id) == [id |-> chunk_id, chunk_id |-> chunk_id]

\* _upload_batch: PointStruct(id=idx, ...) for idx, r in enumerate(records)
PointId(idx, r) == idx

Points(records) ==
    [k \in 1..Len(records) |->
        [id |-> PointId(k - 1, records[k]), chunk_id |-> records[k].chunk_id]]

\* client.upsert, acknowledged: every point replaces the point of its id.
RECURSIVE Upsert(_, _)
Upsert(points, pts) ==
    IF pts = <<>> THEN points
    ELSE Upsert(DictPut(points, Head(pts).id, Head(pts).chunk_id), Tail(pts))

\* create_collection after get_collections: what it does next.
CollectionBranchAlwaysCreate(exists, recreate) ==
    IF exists /\ recreate THEN "delete" ELSE "create"

CollectionBranch(exists, recreate) ==
    IF exists THEN (IF recreate THEN "delete" ELSE "return_false") ELSE "create"

\* for record in batch: the records re-sent one by one after a failed batch.
FallbackRecordsTail(batch) == Tail(batch)

FallbackRecords(batch) == batch

\* BaseState.to_dict / from_dict of an UploadState.
upload_to_dict(st) ==
    [vectors_uploaded |-> st.vectors_uploaded, vectors_failed |-> st.vectors_failed,
     total_vectors |-> st.total_vectors, completed_vectors |-> st.completed_vectors,
     batch_size |-> st.batch_size]

upload_from_dict(data) ==
    [vectors_uploaded |-> DictGet(data, "vectors_uploaded", <<>>),
     vectors_failed |-> DictGet(data, "vectors_failed", EmptyDict),
     total_vectors |-> DictGet(data, "total_vectors", 0),
     completed_vectors |-> DictGet(data, "completed_vectors", 0),
     batch_size |-> DictGet(data, "batch_size", 100)]

\* state_manager.get_upload_state
LoadUploadState(file) ==
    IF file.kind = "json" THEN upload_from_dict(file.data) ELSE NewUploadState

\* for vector_id, error in failed.items(): upload_state.mark_failed(vector_id, error)
MarkAllFailed(st, failed_items) ==
    [st EXCEPT !.vectors_failed =
        [x \in (DOMAIN @) \cup (DOMAIN failed_items) |->
            IF x \in DOMAIN failed_items THEN failed_items[x] ELSE @[x]]]

UploadFrame == UNCHANGED <<crawlVars, objVars, sitemapVars, embedVars, recordVars, chunkVars,
                 libVars>>

UploadRunning ==
    {"get_collections", "delete", "create", "index", "load", "upload"}

\* main and run_upload up to create_collection: vector_store.connect()
\* returns False when the store cannot be reached, which ends the run.
UploadStart ==
    /\ uPc \in {"idle", "exit"}
    /\ uRuns < MaxUploadRuns
    /\ uRuns' = uRuns + 1
    /\ \E a \in UploadArgSets, connected \in BOOLEAN :
        /\ uArgs' = a
        /\ IF connected
           THEN uPc' = "get_collections" /\ uExit' = -1
           ELSE uPc' = "exit" /\ uExit' = 1
    /\ uEmbeddings' = <<>>
    /\ uInput' = <<>>
    /\ uI' = 0
    /\ uJ' = 0
    /\ uAttempt' = 0
    /\ uploaded_ids' = <<>>
    /\ uFailed' = EmptyDict
    /\ uReturned' = FALSE
    /\ uState' = NewUploadState
    /\ uExisted' = FALSE
    /\ uCreated' = "none"
    /\ uLog' = <<>>
    /\ upserts' = {}
    /\ acked' = {}
    /\ permFailed' = {}
    /\ batchTried' = {}
    /\ uNacked' = FALSE
    /\ UNCHANGED <<uploadStateFile, collection>>
    /\ UploadFrame

CcFrame ==
    /\ UNCHANGED <<uRuns, uArgs, uEmbeddings, uInput, uI, uJ, uAttempt, uploaded_ids, uFailed,
                   uReturned, uState, uploadStateFile, upserts, acked, permFailed,
                   batchTried, uNacked>>
    /\ UploadFrame

\* create_collection: client.get_collections() and the branch on its result.
\* An exception of any store call is logged and raised; main exits with 1.
CcGetCollections ==
    /\ uPc = "get_collections"
    /\ uLog' = Append(uLog, [op |-> "get_collections"])
    /\ \E ok \in BOOLEAN :
        IF ok
        THEN LET branch == CollectionBranch(collection.exists, uArgs.recreate)
             IN  /\ uExisted' = collection.exists
                 /\ uPc' = IF branch = "return_false" THEN "load" ELSE branch
                 /\ uCreated' = IF branch = "return_false" THEN "false" ELSE uCreated
                 /\ UNCHANGED uExit
        ELSE /\ uPc' = "exit"
             /\ uExit' = 1
             /\ UNCHANGED <<uExisted, uCreated>>
    /\ UNCHANGED collection
    /\ CcFrame

\* create_collection: client.delete_collection(collection_name)
CcDelete ==
    /\ uPc = "delete"
    /\ uLog' = Append(uLog, [op |-> "delete_collection"])
    /\ \E ok \in BOOLEAN :
        IF ok
        THEN collection' = NoCollection /\ uPc' = "create" /\ UNCHANGED uExit
        ELSE uPc' = "exit" /\ uExit' = 1 /\ UNCHANGED collection
    /\ UNCHANGED <<uExisted, uCreated>>
    /\ CcFrame

\* create_collection: client.create_collection(name, VectorParams(size, COSINE));
\* the store refuses to create a collection that exists.
CcCreate ==
    /\ uPc = "create"
    /\ uLog' = Append(uLog, [op |-> "create_collection", size |-> EmbeddingDimensions,
                             distance |-> "COSINE"])
    /\ \E ok \in BOOLEAN :
        IF ok /\ ~collection.exists
        THEN /\ collection' = Collection(EmbeddingDimensions, "COSINE")
             /\ uPc' = "index"
             /\ UNCHANGED uExit
        ELSE uPc' = "exit" /\ uExit' = 1 /\ UNCHANGED collection
    /\ UNCHANGED <<uExisted, uCreated>>
    /\ CcFrame

\* create_collection: client.create_payload_index(name, "url", KEYWORD), return True
CcIndex ==
    /\ uPc = "index"
    /\ uLog' = Append(uLog, [op |-> "create_payload_index", field_name |-> "url"])
    /\ \E ok \in BOOLEAN :
        IF ok
        THEN /\ collection' = [collection EXCEPT !.url_index = TRUE]
             /\ uCreated' = "true"
             /\ uPc' = "load"
             /\ UNCHANGED uExit
        ELSE uPc' = "exit" /\ uExit' = 1 /\ UNCHANGED <<collection, uCreated>>
    /\ UNCHANGED uExisted
    /\ CcFrame

\* if args.resume and upload_state.vectors_uploaded: the embeddings whose
\* chunk_id is not in the uploaded set; otherwise all of them.
UploadRemainingAll(resume, st, ids) == ids

UploadRemaining(resume, st, ids) ==
    IF resume /\ st.vectors_uploaded # <<>>
    THEN SelectSeq(ids, LAMBDA c : c \notin Range(st.vectors_uploaded))
    ELSE ids

\* run_upload from load_embeddings_for_upload to the call of
\* upload_embeddings.  The early returns give a summary without
\* total_vectors_in_collection, which main prints unless --json is given.
UploadLoad ==
    /\ uPc = "load"
    /\ \E inp \in UploadInputs :
        LET st == LoadUploadState(uploadStateFile)
            remaining == UploadRemaining(uArgs.resume, st, inp.ids)
        IN  /\ uInput' = inp.ids
            /\ IF ~inp.exists
               THEN uPc' = "exit" /\ uExit' = 1 /\ UNCHANGED <<uEmbeddings, uState>>
               ELSE IF inp.ids = <<>>
               THEN /\ uPc' = "exit"
                    /\ uExit' = IF uArgs.json THEN 0 ELSE 1
                    /\ UNCHANGED <<uEmbeddings, uState>>
               ELSE IF remaining = <<>>
               THEN /\ uPc' = "exit"
                    /\ uExit' = IF uArgs.json THEN 0 ELSE 1
                    /\ uState' = st
                    /\ UNCHANGED uEmbeddings
               ELSE /\ uPc' = "upload"
                    /\ uEmbeddings' = remaining
                    /\ uState' = st
                    /\ UNCHANGED uExit
    /\ UNCHANGED <<uRuns, uArgs, uI, uJ, uAttempt, uploaded_ids, uFailed, uReturned,
                   uploadStateFile, collection, uExisted, uCreated, uLog, upserts, acked,
                   permFailed, batchTried, uNacked>>
    /\ UploadFrame

UpsertFrame ==
    /\ UNCHANGED <<uPc, uExit, uRuns, uArgs, uEmbeddings, uInput, uReturned, uState,
                   uploadStateFile, uExisted, uCreated, uLog>>
    /\ UploadFrame

\* records[i : i + self.batch_size] of the records made of the embeddings
UploadBatch ==
    LET ids == Batch(uEmbeddings, uI, UploadBatchSize)
    IN  [k \in 1..Len(ids) |-> to_vector_record(ids[k])]

\* One attempt of _upload_batch(batch) in the batch loop of upload_embeddings.
UpsertBatch ==
    /\ uPc = "upload"
    /\ uI < Len(uEmbeddings)
    /\ uJ = 0
    /\ LET batch == UploadBatch
           points == Points(batch)
       IN  /\ upserts' = upserts \cup Range(points)
           /\ batchTried' = batchTried \cup {uI}
           /\ \E ok \in BOOLEAN :
               IF ok
               THEN /\ UNCHANGED uNacked
                    /\ collection' = [collection EXCEPT !.points = Upsert(@, points)]
                    /\ uploaded_ids' = uploaded_ids \o [k \in 1..Len(batch) |-> batch[k].id]
                    /\ acked' = acked \cup {batch[k].chunk_id : k \in 1..Len(batch)}
                    /\ uI' = uI + UploadBatchSize
                    /\ uAttempt' = 0
                    /\ UNCHANGED uJ
               ELSE /\ uNacked' = TRUE
                    /\ IF RetryExhausted(uAttempt, UploadMaxRetries)
                       THEN IF FallbackRecords(batch) = <<>>
                            THEN uJ' = 0 /\ uI' = uI + UploadBatchSize /\ uAttempt' = 0
                            ELSE /\ uJ' = Len(batch) - Len(FallbackRecords(batch)) + 1
                                 /\ uAttempt' = 0
                                 /\ UNCHANGED uI
                       ELSE uAttempt' = uAttempt + 1 /\ UNCHANGED <<uI, uJ>>
                    /\ UNCHANGED <<collection, uploaded_ids, acked>>
    /\ UNCHANGED <<uFailed, permFailed>>
    /\ UpsertFrame

\* One attempt of _upload_batch([record]) in the per-record loop.
UpsertRecord ==
    /\ uPc = "upload"
    /\ uJ >= 1
    /\ LET batch == UploadBatch
           record == batch[uJ]
           points == Points(<<record>>)
           next == /\ uAttempt' = 0
                   /\ IF uJ = Len(batch)
                      THEN uJ' = 0 /\ uI' = uI + UploadBatchSize
                      ELSE uJ' = uJ + 1 /\ UNCHANGED uI
       IN  /\ upserts' = upserts \cup Range(points)
           /\ \E ok \in BOOLEAN :
               IF ok
               THEN /\ UNCHANGED uNacked
                    /\ collection' = [collection EXCEPT !.points = Upsert(@, points)]
                    /\ uploaded_ids' = Append(uploaded_ids, record.id)
                    /\ acked' = acked \cup {record.chunk_id}
                    /\ next
                    /\ UNCHANGED <<uFailed, permFailed>>
               ELSE /\ uNacked' = TRUE
                    /\ IF RetryExhausted(uAttempt, UploadMaxRetries)
                       THEN /\ uFailed' = DictPut(uFailed, record.id, "StoreError")
                            /\ permFailed' = permFailed \cup {record.chunk_id}
                            /\ next
                       ELSE /\ uAttempt' = uAttempt + 1
                            /\ UNCHANGED <<uI, uJ, uFailed, permFailed>>
                    /\ UNCHANGED <<collection, uploaded_ids, acked>>
    /\ UNCHANGED batchTried
    /\ UpsertFrame

\* upload_embeddings returns; run_upload marks the ids, saves the state and
\* counts; main exits with 0 when nothing failed and with 1 otherwise.
UploadReturn ==
    /\ uPc = "upload"
    /\ uI >= Len(uEmbeddings)
    /\ uReturned' = TRUE
    /\ uState' = MarkAllFailed(mark_uploaded(uState, uploaded_ids), uFailed)
    /\ uploadStateFile' = JsonFile(upload_to_dict(uState'))
    /\ uPc' = "exit"
    /\ uExit' = IF DOMAIN uFailed = {} THEN 0 ELSE 1
    /\ UNCHANGED <<uRuns, uArgs, uEmbeddings, uInput, uI, uJ, uAttempt, uploaded_ids, uFailed,
                   collection, uExisted, uCreated, uLog, upserts, acked, permFailed,
                   batchTried, uNacked>>
    /\ UploadFrame

\* KeyboardInterrupt: main logs "upload_cancelled" and exits with 130.
UploadInterrupt ==
    /\ uPc \in UploadRunning
    /\ uPc' = "exit"
    /\ uExit' = 130
    /\ UNCHANGED <<uRuns, uArgs, uEmbeddings, uInput, uI, uJ, uAttempt, uploaded_ids, uFailed,
                   uReturned, uState, uploadStateFile, collection, uExisted, uCreated,
                   uLog, upserts, acked, permFailed, batchTried, uNacked>>
    /\ UploadFrame

NextUpload ==
    \/ UploadStart
    \/ CcGetCollections
    \/ CcDelete
    \/ CcCreate
    \/ CcIndex
    \/ UploadLoad
    \/ UpsertBatch
    \/ UpsertRecord
    \/ UploadReturn
    \/ UploadInterrupt

InitUpload ==
    /\ InitCrawl
    /\ ObjsIdle
    /\ SitemapIdle
    /\ EmbedIdle
    /\ RecordIdle
    /\ ChunkIdle
    /\ LibsIdle
    /\ UploadRest
    /\ collection \in InitialCollections

SpecUpload == InitUpload /\ [][NextUpload]_vars

(***************************************************************************)
(* models/embedding.py: construction of a VectorRecord.                    *)
(***************************************************************************)
REQUIRED_PAYLOAD_FIELDS ==
    {"text", "url", "title", "chunk_index", "total_chunks", "token_count", "model",
     "created_at"}

\* The keys a payload may carry: the required ones and chunk metadata.
PayloadKeys == REQUIRED_PAYLOAD_FIELDS \cup {"doc_type"}

\* VectorRecord.validate_payload: the payload is accepted.
validate_payload(v) == {f \in REQUIRED_PAYLOAD_FIELDS : f \notin v} = {}

\* VectorRecord(id=..., vector=..., payload=...): the field validators run on
\* the values given; a field that is not given takes its default
\* (payload: default_factory=dict), and a default is not validated.
VectorRecord(kw) ==
    IF kw.vector_len # EmbeddingDim THEN [raised |-> TRUE, payload |-> {}]
    ELSE IF ~kw.payload_given THEN [raised |-> FALSE, payload |-> {}]
    ELSE IF validate_payload(kw.payload) THEN [raised |-> FALSE, payload |-> kw.payload]
    ELSE [raised |-> TRUE, payload |-> {}]

\* A payload is the set of its keys.
RecordInputs ==
    [payload_given : {TRUE}, payload : SUBSET PayloadKeys,
     vector_len : {EmbeddingDim, EmbeddingDim - 1}]
        \cup [payload_given : {FALSE}, payload : {{}},
              vector_len : {EmbeddingDim, EmbeddingDim - 1}]

RecordFrame ==
    UNCHANGED <<crawlVars, objVars, sitemapVars, embedVars, uploadVars, chunkVars,
                 libVars>>

Construct ==
    /\ rPc = "start"
    /\ rResult' = VectorRecord(rInput)
    /\ rPc' = "done"
    /\ UNCHANGED rInput
    /\ RecordFrame

NextRecord == Construct

InitRecord ==
    /\ InitCrawl
    /\ ObjsIdle
    /\ SitemapIdle
    /\ EmbedIdle
    /\ UploadIdle
    /\ ChunkIdle
    /\ LibsIdle
    /\ rPc = "start"
    /\ rInput \in RecordInputs
    /\ rResult = <<>>

SpecRecord == InitRecord /\ [][NextRecord]_vars

(***************************************************************************)
(* services/chunker.py and models/chunk.py.  A text is the sequence of its *)
(* characters.                                                             *)
(***************************************************************************)
MaxBlocks == 5               \* pieces a document text is put together from
MaxChunkSize == 3            \* largest chunk_size, in tokens
MaxChunkOverlap == 1         \* largest chunk_overlap, in tokens

CharsPerToken == 4           \* count_tokens: len(text) // 4
MinTextLen == 10             \* TextChunk.text: min_length=10

\* The pieces of the document texts: words of less than one, of one and of
\* two tokens, the end of a sentence, a space and a paragraph break.
Blocks ==
    {<<"a", "a", "a">>, <<"b", ".">>, <<" ">>, <<"\n", "\n">>,
     <<"c", "c", "c", "c", "c", "c">>,
     <<"d", "d", "d", "d", "d", "d", "d", "d">>}

RECURSIVE Concat(_)
Concat(ss) == IF ss = <<>> THEN <<>> ELSE Head(ss) \o Concat(Tail(ss))

\* The whitespace of str.strip() among the characters of the model.
IsSpace(c) == c \in {" ", "\n", "\t", "\r"}

\* str.strip()
strip(t) ==
    LET keep == {i \in 1..Len(t) : ~IsSpace(t[i])}
    IN  IF keep = {} THEN <<>>
        ELSE SubSeq(t, CHOOSE i \in keep : \A j \in keep : i <= j,
                       CHOOSE i \in keep : \A j \in keep : j <= i)

\* DocumentPage.validate_text_length: the text is not empty or blank.
Texts == {t \in {Concat(bs) : bs \in SeqsUpTo(Blocks, MaxBlocks)} : strip(t) # <<>>}

ChunkConfigs ==
    {c \in [chunk_size : 2..MaxChunkSize, chunk_overlap : 0..MaxChunkOverlap] :
        c.chunk_overlap < c.chunk_size}

count_tokens(t) == Len(t) \div CharsPerToken

\* The end of the run of characters of the set cs that starts at i.
RECURSIVE RunEnd(_, _, _)
RunEnd(t, i, cs) ==
    IF i < Len(t) /\ t[i + 1] \in cs THEN RunEnd(t, i + 1, cs) ELSE i

\* re.split(r'\n\n+', text), from position i on, with the piece cur begun.
RECURSIVE SplitParagraphs(_, _, _)
SplitParagraphs(t, i, cur) ==
    IF i > Len(t) THEN <<cur>>
    ELSE IF t[i] = "\n" /\ i < Len(t) /\ t[i + 1] = "\n"
         THEN <<cur>> \o SplitParagraphs(t, RunEnd(t, i, {"\n"}) + 1, <<>>)
         ELSE SplitParagraphs(t, i + 1, Append(cur, t[i]))

\* re.split(r'(?<=[.!?])\s+', para), from position i on.
RECURSIVE SplitSentences(_, _, _)
SplitSentences(t, i, cur) ==
    IF i > Len(t) THEN <<cur>>
    ELSE IF IsSpace(t[i]) /\ i > 1 /\ t[i - 1] \in {".", "!", "?"}
         THEN <<cur>> \o SplitSentences(t, RunEnd(t, i, {" ", "\n"}) + 1, <<>>)
         ELSE SplitSentences(t, i + 1, Append(cur, t[i]))

\* s[-n:] for n > 0
LastCharsAll(t, n) == t

LastChars(t, n) == IF n >= Len(t) THEN t ELSE SubSeq(t, Len(t) - n + 1, Len(t))

\* s[:n]
FirstChars(t, n) == IF n >= Len(t) THEN t ELSE SubSeq(t, 1, n)

\* The state of the loop of _split_text.
\* (seeds is the record of the chunks closed: the index of the chunk, and
\* the separator and the piece put after its overlap.)
NewSplit == [chunks |-> <<>>, current_chunk |-> <<>>, current_tokens |-> 0, seeds |-> <<>>]

\* The body shared by the sentence loop and the paragraph branch of
\* _split_text: close the current chunk when the piece does not fit, start
\* the next one with the overlap, then add the piece after the separator.
AddPiece(st, piece, sep, cfg) ==
    LET tokens == count_tokens(piece)
        full == st.current_tokens + tokens > cfg.chunk_size
        chunks1 == IF full /\ st.current_chunk # <<>>
                   THEN Append(st.chunks, strip(st.current_chunk))
                   ELSE st.chunks
        overlap_text == LastChars(st.current_chunk, cfg.chunk_overlap * CharsPerToken)
        cur1 == IF ~full THEN st.current_chunk
                ELSE IF cfg.chunk_overlap > 0 /\ st.current_chunk # <<>> THEN overlap_text
                ELSE <<>>
        tok1 == IF ~full THEN st.current_tokens
                ELSE IF cfg.chunk_overlap > 0 /\ st.current_chunk # <<>>
                     THEN count_tokens(overlap_text)
                ELSE 0
    IN  [chunks |-> chunks1,
         current_chunk |-> cur1 \o (IF cur1 # <<>> THEN sep ELSE <<>>) \o piece,
         current_tokens |-> tok1 + tokens,
         seeds |-> IF full /\ st.current_chunk # <<>>
                   THEN Append(st.seeds, [chunk |-> Len(chunks1), sep |-> sep,
                                          piece |-> piece])
                   ELSE st.seeds]

RECURSIVE AddSentences(_, _, _)
AddSentences(st, sentences, cfg) ==
    IF sentences = <<>> THEN st
    ELSE LET sentence == strip(Head(sentences))
         IN  AddSentences(IF sentence = <<>> THEN st
                          ELSE AddPiece(st, sentence, <<" ">>, cfg),
                          Tail(sentences), cfg)

\* para_tokens > self.chunk_size * 1.5
TooBig(para_tokens, cfg) == 2 * para_tokens > 3 * cfg.chunk_size

RECURSIVE AddParagraphs(_, _, _)
AddParagraphs(st, paragraphs, cfg) ==
    IF paragraphs = <<>> THEN st
    ELSE LET para == strip(Head(paragraphs))
             st1 == IF para = <<>> THEN st
                    ELSE IF TooBig(count_tokens(para), cfg)
                         THEN AddSentences(st, SplitSentences(para, 1, <<>>), cfg)
                    ELSE AddPiece(st, para, <<"\n", "\n">>, cfg)
         IN  AddParagraphs(st1, Tail(paragraphs), cfg)

\* "Add final chunk": the chunks once the loop has ended.
FinalChunksDropped(st) == st.chunks

FinalChunks(st) ==
    IF st.current_chunk # <<>> THEN Append(st.chunks, strip(st.current_chunk))
    ELSE st.chunks

\* The chunks _split_text closed inside its loop, with what followed each.
split_seeds(text, cfg) ==
    AddParagraphs(NewSplit, SplitParagraphs(text, 1, <<>>), cfg).seeds

split_text(text, cfg) ==
    LET st == AddParagraphs(NewSplit, SplitParagraphs(text, 1, <<>>), cfg)
        chunks == FinalChunks(st)
    IN  IF chunks # <<>> THEN chunks
        ELSE <<FirstChars(text, cfg.chunk_size * CharsPerToken)>>

\* str.find(sub, start), 0-based, -1 when sub is not found.
Find(t, sub, start) ==
    LET from == IF start < 0 THEN (IF Len(t) + start < 0 THEN 0 ELSE Len(t) + start)
                ELSE start
        hits == {i \in from..(Len(t) - Len(sub)) : SubSeq(t, i + 1, i + Len(sub)) = sub}
    IN  IF hits = {} THEN -1 ELSE CHOOSE i \in hits : \A j \in hits : i <= j

\* _get_char_positions, with current_pos as it is before chunk k.
RECURSIVE get_char_positions(_, _, _, _, _)
get_char_positions(full_text, chunks, k, current_pos, cfg) ==
    IF k > Len(chunks) THEN <<>>
    ELSE LET found == Find(full_text, chunks[k], current_pos)
             start == IF found = -1 THEN current_pos ELSE found
             end == start + Len(chunks[k])
         IN  <<[start |-> start, end |-> end]>>
                 \o get_char_positions(full_text, chunks, k + 1,
                        end - (IF cfg.chunk_overlap > 0
                               THEN cfg.chunk_overlap * CharsPerToken ELSE 0),
                        cfg)

\* TextChunk.text: Field(..., min_length=10)
TextLongEnoughAny(t) == TRUE

TextLongEnough(t) == Len(t) >= MinTextLen

\* TextChunk.validate_index: total_chunks is declared after chunk_index, so
\* it is not among the validated data yet and total is 0.
validate_index(v, total) == ~(total # 0 /\ v >= total)

\* TextChunk(...): the field constraints and validators accept the values.
TextChunkValid(c) ==
    /\ TextLongEnough(c.text)
    /\ c.chunk_index >= 0
    /\ validate_index(c.chunk_index, 0)
    /\ c.total_chunks > 0
    /\ c.token_count >= 1
    /\ c.char_start >= 0
    /\ c.char_end > 0
    /\ c.char_end > c.char_start

\* TextChunk.from_document
from_document(chunks, token_counts, char_positions) ==
    [k \in 1..Len(chunks) |->
        [text |-> chunks[k], chunk_index |-> k - 1, total_chunks |-> Len(chunks),
         token_count |-> token_counts[k], char_start |-> char_positions[k].start,
         char_end |-> char_positions[k].end]]

\* TextChunker.chunk_document: the chunks, or the validation error of a chunk.
chunk_document(text, cfg) ==
    IF text = <<>> THEN [raised |-> FALSE, chunks |-> <<>>]
    ELSE LET chunks == split_text(text, cfg)
             char_positions == get_char_positions(text, chunks, 1, 0, cfg)
             token_counts == [k \in 1..Len(chunks) |-> count_tokens(chunks[k])]
             text_chunks == from_document(chunks, token_counts, char_positions)
         IN  IF \A k \in 1..Len(text_chunks) : TextChunkValid(text_chunks[k])
             THEN [raised |-> FALSE, chunks |-> text_chunks]
             ELSE [raised |-> TRUE, chunks |-> <<>>]

ChunkFrame ==
    UNCHANGED <<crawlVars, objVars, sitemapVars, embedVars, uploadVars, recordVars,
                 libVars>>

ChunkDocument ==
    /\ kPc = "start"
    /\ kSplit' = IF kInput.text = <<>> THEN <<>> ELSE split_text(kInput.text, kInput.cfg)
    /\ kSeeds' = IF kInput.text = <<>> THEN <<>> ELSE split_seeds(kInput.text, kInput.cfg)
    /\ kResult' = chunk_document(kInput.text, kInput.cfg)
    /\ kPc' = "done"
    /\ UNCHANGED kInput
    /\ ChunkFrame

NextChunk == ChunkDocument

InitChunk ==
    /\ InitCrawl
    /\ ObjsIdle
    /\ SitemapIdle
    /\ EmbedIdle
    /\ UploadIdle
    /\ RecordIdle
    /\ LibsIdle
    /\ kPc = "start"
    /\ kInput \in [text : Texts, cfg : ChunkConfigs]
    /\ kSplit = <<>>
    /\ kSeeds = <<>>
    /\ kResult = <<>>

SpecChunk == InitChunk /\ [][NextChunk]_vars

(***************************************************************************)
(* services/extractor.py: _normalize_text.  The raw text is what get_text  *)
(* gives for a page: words, blanks, tabs, newlines and carriage returns.   *)
(***************************************************************************)
MaxRawLen == 6               \* longest raw text, in characters

RawChars == {"a", " ", "\t", "\n", "\r"}

RawTexts == SeqsUpTo(RawChars, MaxRawLen)

Blanks == {" ", "\t"}

\* re.sub(r"[ \t]+", " ", text), from position i on.
RECURSIVE CollapseBlanks(_, _)
CollapseBlanks(t, i) ==
    IF i > Len(t) THEN <<>>
    ELSE IF t[i] \in Blanks
         THEN <<" ">> \o CollapseBlanks(t, RunEnd(t, i, Blanks) + 1)
         ELSE <<t[i]>> \o CollapseBlanks(t, i + 1)

\* re.sub(r"\n[ \t]+", "\n", text), from position i on.
RECURSIVE DropBlanksAfterNewline(_, _)
DropBlanksAfterNewline(t, i) ==
    IF i > Len(t) THEN <<>>
    ELSE IF t[i] = "\n" /\ i < Len(t) /\ t[i + 1] \in Blanks
         THEN <<"\n">> \o DropBlanksAfterNewline(t, RunEnd(t, i + 1, Blanks) + 1)
         ELSE <<t[i]>> \o DropBlanksAfterNewline(t, i + 1)

\* re.sub(r"\n{3,}", "\n\n", text), from position i on.
RECURSIVE SqueezeNewlines(_, _)
SqueezeNewlines(t, i) ==
    IF i > Len(t) THEN <<>>
    ELSE IF t[i] = "\n"
         THEN LET e == RunEnd(t, i, {"\n"})
              IN  (IF e - i + 1 >= 3 THEN <<"\n", "\n">> ELSE SubSeq(t, i, e))
                      \o SqueezeNewlines(t, e + 1)
         ELSE <<t[i]>> \o SqueezeNewlines(t, i + 1)

\* text.split("\n"), from position i on, with the line cur begun.
RECURSIVE SplitLines(_, _, _)
SplitLines(t, i, cur) ==
    IF i > Len(t) THEN <<cur>>
    ELSE IF t[i] = "\n" THEN <<cur>> \o SplitLines(t, i + 1, <<>>)
    ELSE SplitLines(t, i + 1, Append(cur, t[i]))

\* "for line in lines if line"
KeepLineAny(line) == TRUE

KeepLine(line) == line # <<>>

\* [line.strip() for line in lines], without the lines "if line" drops.
RECURSIVE KeptLines(_)
KeptLines(lines) ==
    IF lines = <<>> THEN <<>>
    ELSE (IF KeepLine(strip(Head(lines))) THEN <<strip(Head(lines))>> ELSE <<>>)
             \o KeptLines(Tail(lines))

\* "\n".join(lines)
RECURSIVE JoinLines(_)
JoinLines(lines) ==
    IF lines = <<>> THEN <<>>
    ELSE IF Len(lines) = 1 THEN Head(lines)
    ELSE Head(lines) \o <<"\n">> \o JoinLines(Tail(lines))

\* DocusaurusContentExtractor._normalize_text
normalize_text(text) ==
    IF text = <<>> THEN <<>>
    ELSE LET t1 == CollapseBlanks(text, 1)
             t2 == DropBlanksAfterNewline(t1, 1)
             t3 == SqueezeNewlines(t2, 1)
         IN  strip(JoinLines(KeptLines(SplitLines(t3, 1, <<>>))))

NormFrame == UNCHANGED <<stageVars, docVars, rtVars, ragVars, retryVars, chatVars>>

NormalizeStart ==
    /\ nPc = "idle"
    /\ \E t \in RawTexts : nInput' = t
    /\ nPc' = "start"
    /\ UNCHANGED <<nOnce, nTwice>>
    /\ NormFrame

NormalizeOnce ==
    /\ nPc = "start"
    /\ nOnce' = normalize_text(nInput)
    /\ nPc' = "once"
    /\ UNCHANGED <<nInput, nTwice>>
    /\ NormFrame

NormalizeTwice ==
    /\ nPc = "once"
    /\ nTwice' = normalize_text(nOnce)
    /\ nPc' = "twice"
    /\ UNCHANGED <<nInput, nOnce>>
    /\ NormFrame

NextNormalize == NormalizeStart \/ NormalizeOnce \/ NormalizeTwice

InitNormalize == InitCrawl /\ ObjsIdle /\ SitemapIdle /\ StagesIdle

SpecNormalize == InitNormalize /\ [][NextNormalize]_vars

(***************************************************************************)
(* models/document.py: a DocumentPage from the extractor, its cache files  *)
(* (cli/crawl.py) and the DocumentPage load_cached_documents makes of them *)
(* (cli/embed.py).                                                         *)
(***************************************************************************)
MaxDocLen == 4               \* longest extracted text, in characters

DocTexts == SeqsUpTo({"a", " ", "\n"}, MaxDocLen)

\* The empty string.
EmptyStr == <<>>

\* sha256(text.encode()).hexdigest(): a digest per text, never empty.
Sha256(text) == <<"sha256">> \o text

\* DocumentPage.compute_hash, a "before" validator of content_hash: data
\* holds the fields validated so far.
compute_hash(v, data) ==
    IF v = EmptyStr
    THEN LET extracted_text == IF "extracted_text" \in DOMAIN data
                               THEN data.extracted_text ELSE EmptyStr
         IN  IF extracted_text # EmptyStr THEN Sha256(extracted_text) ELSE v
    ELSE v

\* DocumentPage(extracted_text=..., [content_hash=...]): a field validator
\* runs on a value that is given; content_hash has the default "" and a
\* default is not validated.
DocumentPage(kw) ==
    LET text_ok == Len(kw.extracted_text) >= 1
        data == IF text_ok THEN [extracted_text |-> kw.extracted_text]
                ELSE [url |-> EmptyStr]
        content_hash == IF kw.hash_given THEN compute_hash(kw.content_hash, data)
                        ELSE EmptyStr
    IN  IF ~text_ok \/ strip(kw.extracted_text) = <<>>
        THEN [raised |-> TRUE]
        ELSE [raised |-> FALSE, extracted_text |-> kw.extracted_text,
              content_hash |-> content_hash]

\* DocumentPage.to_cache_file: the text content and the metadata dict.
to_cache_file(doc) ==
    [text |-> doc.extracted_text, meta |-> [content_hash |-> doc.content_hash]]

DocFrame == UNCHANGED <<stageVars, normVars, rtVars, ragVars, retryVars, chatVars>>

\* run_crawl: a completed page is fetched again for extraction.
DocStart ==
    /\ dPc = "idle"
    /\ \E t \in DocTexts : dInput' = t
    /\ dPc' = "start"
    /\ UNCHANGED <<dDoc, dCache, dLoaded>>
    /\ DocFrame

\* extractor.extract: DocumentPage(url=url, title=title, extracted_text=text)
DocExtract ==
    /\ dPc = "start"
    /\ LET doc == DocumentPage([extracted_text |-> dInput, hash_given |-> FALSE,
                                content_hash |-> EmptyStr])
       IN  /\ dDoc' = doc
           /\ dPc' = IF doc.raised THEN "raised" ELSE "extracted"
    /\ UNCHANGED <<dInput, dCache, dLoaded>>
    /\ DocFrame

\* run_crawl: the text file and the meta file are written.
DocCache ==
    /\ dPc = "extracted"
    /\ dCache' = to_cache_file(dDoc)
    /\ dPc' = "cached"
    /\ UNCHANGED <<dInput, dDoc, dLoaded>>
    /\ DocFrame

\* load_cached_documents: DocumentPage(..., extracted_text=text_content,
\* content_hash=metadata.get("content_hash", ""))
DocLoad ==
    /\ dPc = "cached"
    /\ dLoaded' = DocumentPage([extracted_text |-> dCache.text, hash_given |-> TRUE,
                                content_hash |-> dCache.meta.content_hash])
    /\ dPc' = "loaded"
    /\ UNCHANGED <<dInput, dDoc, dCache>>
    /\ DocFrame

NextDocument == DocStart \/ DocExtract \/ DocCache \/ DocLoad

InitDocument == InitCrawl /\ ObjsIdle /\ SitemapIdle /\ StagesIdle

SpecDocument == InitDocument /\ [][NextDocument]_vars

(***************************************************************************)
(* services/state_manager.py: a state object with its last_updated, saved  *)
(* by save_state and loaded by the _load_state of a fresh StateManager.    *)
(***************************************************************************)
MaxRtOps == 2                \* state operations before the save

\* datetime.utcnow(): seconds and microseconds.
Times == [sec : {1, 2}, usec : {0, 500}]

\* datetime.isoformat(): the microseconds are left out when they are 0.
isoformat_seconds(dt) == <<dt.sec>>

isoformat(dt) == IF dt.usec = 0 THEN <<dt.sec>> ELSE <<dt.sec, ".", dt.usec>>

\* datetime.fromisoformat
fromisoformat(str) ==
    [sec |-> str[1], usec |-> IF Len(str) = 1 THEN 0 ELSE str[3]]

\* The defaults of the state classes.
DefaultState(stage) ==
    IF stage = "crawl" THEN sm_NewCrawlState
    ELSE IF stage = "embed" THEN NewEmbedState
    ELSE NewUploadState

\* self.model_dump() of the stage's state class, without last_updated.
ModelDump(stage, st) ==
    IF stage = "crawl" THEN to_dict(st)
    ELSE IF stage = "embed" THEN embed_to_dict(st)
    ELSE upload_to_dict(st)

\* BaseState.to_dict: the dump with last_updated as an ISO string.
base_to_dict(obj) ==
    LET data == ModelDump(obj.stage, obj.st)
    IN  [k \in DOMAIN data \cup {"last_updated"} |->
            IF k = "last_updated" THEN isoformat(obj.last_updated) ELSE data[k]]

\* BaseState.from_dict: cls(**data) with last_updated parsed; a field the
\* document lacks takes its default, last_updated the time of the load.
base_from_dict(stage, data, now) ==
    [stage |-> stage,
     st |-> IF stage = "crawl" THEN from_dict(data)
            ELSE IF stage = "embed" THEN embed_from_dict(data)
            ELSE upload_from_dict(data),
     last_updated |-> IF "last_updated" \in DOMAIN data
                      THEN fromisoformat(data["last_updated"]) ELSE now]

\* StateManager.save_state: json.dumps(state.to_dict()) written to the file.
save_state(obj) == [kind |-> "json", data |-> base_to_dict(obj)]

\* StateManager._load_state
load_state(stage, file, now) ==
    IF file.kind = "json" THEN base_from_dict(stage, file.data, now)
    ELSE [stage |-> stage, st |-> DefaultState(stage), last_updated |-> now]

\* The operations of the state classes; each sets last_updated when it
\* changes the object.
StateOps(obj, now) ==
    IF obj.stage = "crawl"
    THEN {[obj EXCEPT !.st = sm_mark_completed(@, u),
                      !.last_updated = IF u \in Range(obj.st.urls_completed)
                                       THEN @ ELSE now] : u \in URLS}
             \cup {[obj EXCEPT !.st = sm_mark_failed(@, u, e), !.last_updated = now] :
                      u \in URLS, e \in ERRORS}
    ELSE IF obj.stage = "embed"
    THEN {[obj EXCEPT !.st = mark_processed(@, ids), !.last_updated = now] :
             ids \in SeqsUpTo(IDS, MaxBatch)}
             \cup {[obj EXCEPT !.st = embed_mark_failed(@, c, e), !.last_updated = now] :
                      c \in IDS, e \in ERRORS}
    ELSE {[obj EXCEPT !.st = mark_uploaded(@, ids), !.last_updated = now] :
             ids \in SeqsUpTo(IDS, MaxBatch)}
             \cup {[obj EXCEPT !.st = upload_mark_failed(@, v, e), !.last_updated = now] :
                      v \in IDS, e \in ERRORS}

RtFrame == UNCHANGED <<stageVars, normVars, docVars, ragVars, retryVars, chatVars>>

\* get_crawl_state / get_embed_state / get_upload_state without a file.
RtGet ==
    /\ tPc = "idle"
    /\ \E stage \in {"crawl", "embed", "upload"}, now \in Times :
           tObj' = load_state(stage, NoFile, now)
    /\ tPc' = "open"
    /\ UNCHANGED <<tOps, tFile, tLoaded>>
    /\ RtFrame

RtOp ==
    /\ tPc = "open"
    /\ tOps < MaxRtOps
    /\ \E now \in Times : \E o \in StateOps(tObj, now) : tObj' = o
    /\ tOps' = tOps + 1
    /\ UNCHANGED <<tPc, tFile, tLoaded>>
    /\ RtFrame

RtSave ==
    /\ tPc = "open"
    /\ tFile' = save_state(tObj)
    /\ tPc' = "saved"
    /\ UNCHANGED <<tObj, tOps, tLoaded>>
    /\ RtFrame

\* A fresh StateManager gets the state of the stage.
RtLoad ==
    /\ tPc = "saved"
    /\ \E now \in Times : tLoaded' = load_state(tObj.stage, tFile, now)
    /\ tPc' = "loaded"
    /\ UNCHANGED <<tObj, tOps, tFile>>
    /\ RtFrame

NextRoundTrip == RtGet \/ RtOp \/ RtSave \/ RtLoad

InitRoundTrip == InitCrawl /\ ObjsIdle /\ SitemapIdle /\ StagesIdle

SpecRoundTrip == InitRoundTrip /\ [][NextRoundTrip]_vars

(***************************************************************************)
(* backend-book: RAGAgentService.generate_response with RetrievalService,  *)
(* QdrantService.search_similar and the Response model.  Scores are in     *)
(* tenths.                                                                 *)
(***************************************************************************)
MaxRetrieved == 2            \* most points a search returns

MinRelevanceScore == 3       \* settings.MIN_RELEVANCE_SCORE = 0.3

\* The points of the store: Qdrant ids are strings (UUIDs) or integers.
PointIds ==
    {[is_str |-> TRUE, value |-> "p1"], [is_str |-> TRUE, value |-> "p2"],
     [is_str |-> FALSE, value |-> "7"]}

Scores == {1, 5}

SearchResults ==
    SeqsUpTo([id : PointIds, score : Scores, url : {"page"}, content : {"text"}],
             MaxRetrieved)

\* What the chat completion gives back when it does not raise.
LlmAnswers == {"an answer", "Sorry, I don't know that", "I was unable to find it"}

\* RetrievalService.retrieve_relevant_content after a search: the results
\* of at least the minimum relevance score.
FilterByScore(results) ==
    IF MinRelevanceScore > 0
    THEN SelectSeq(results, LAMBDA r : r.score >= MinRelevanceScore)
    ELSE results

\* _generate_answer_with_context on an answer of the model: "i don't know"
\* or "unable to find" in answer.lower()
NormalizeAnswer(answer) ==
    IF answer \in {"Sorry, I don't know that", "I was unable to find it"}
    THEN "I don't know" ELSE answer

\* The response of both fallback branches.
FallbackResponse ==
    [raised |-> FALSE, answer |-> "I don't know", sources |-> <<>>, confidence |-> 0,
     fallback_used |-> TRUE]

\* Response(...): sources is List[str]; an integer id is not a valid string.
ResponseValid(sources) == \A k \in 1..Len(sources) : sources[k].is_str

Max(S) == CHOOSE x \in S : \A y \in S : y <= x

\* Step 5 of generate_response; a validation error is caught by
\* "except Exception" and answered with the fallback.
SuccessResponse(answer, chunks) ==
    LET sources == [k \in 1..Len(chunks) |-> chunks[k].id]
    IN  IF ResponseValid(sources)
        THEN [raised |-> FALSE, answer |-> answer, sources |-> sources,
              confidence |-> Max({chunks[k].score : k \in 1..Len(chunks)}),
              fallback_used |-> FALSE]
        ELSE FallbackResponse

RagFrame == UNCHANGED <<stageVars, normVars, docVars, rtVars, retryVars, chatVars>>

\* generate_response(query, user_id, page_context)
RagStart ==
    /\ gPc = "idle"
    /\ \E page \in {<<>>, <<"page">>} : gPage' = page
    /\ gPc' = "embed"
    /\ UNCHANGED <<gEmbedded, gChunks, gSteps, gAnswer, gResponse>>
    /\ RagFrame

\* retrieve_relevant_content: create_query_embedding returns or raises;
\* the exception is caught and the retrieval returns [].
RagEmbed ==
    /\ gPc = "embed"
    /\ \/ /\ gEmbedded' = TRUE
          /\ gPc' = "search"
          /\ UNCHANGED gSteps
       \/ /\ gSteps' = gSteps \cup {"embed"}
          /\ gPc' = "check"
          /\ UNCHANGED gEmbedded
    /\ UNCHANGED <<gPage, gChunks, gAnswer, gResponse>>
    /\ RagFrame

\* search_similar: the search returns points or raises; search_similar
\* catches the exception and returns [].
RagSearch ==
    /\ gPc = "search"
    /\ \/ \E results \in SearchResults : 
              /\ gChunks' = FilterByScore(results)
              /\ UNCHANGED gSteps
       \/ /\ gSteps' = gSteps \cup {"search"}
          /\ gChunks' = <<>>
    /\ gPc' = "check"
    /\ UNCHANGED <<gPage, gEmbedded, gAnswer, gResponse>>
    /\ RagFrame

\* Step 2: "if not retrieved_chunks"
RagCheck ==
    /\ gPc = "check"
    /\ IF gChunks = <<>>
       THEN gResponse' = FallbackResponse /\ gPc' = "returned"
       ELSE gPc' = "llm" /\ UNCHANGED gResponse
    /\ UNCHANGED <<gPage, gEmbedded, gChunks, gSteps, gAnswer>>
    /\ RagFrame

\* _generate_answer_with_context: the chat completion returns or raises;
\* the exception is caught and "I don't know" is returned as the answer.
RagLlm ==
    /\ gPc = "llm"
    /\ \/ \E answer \in LlmAnswers :
              /\ gAnswer' = NormalizeAnswer(answer)
              /\ UNCHANGED gSteps
       \/ /\ gAnswer' = "I don't know"
          /\ gSteps' = gSteps \cup {"llm"}
    /\ gPc' = "respond"
    /\ UNCHANGED <<gPage, gEmbedded, gChunks, gResponse>>
    /\ RagFrame

RagRespond ==
    /\ gPc = "respond"
    /\ gResponse' = SuccessResponse(gAnswer, gChunks)
    /\ gPc' = "returned"
    /\ UNCHANGED <<gPage, gEmbedded, gChunks, gSteps, gAnswer>>
    /\ RagFrame

NextRag == RagStart \/ RagEmbed \/ RagSearch \/ RagCheck \/ RagLlm \/ RagRespond

InitRag == InitCrawl /\ ObjsIdle /\ SitemapIdle /\ StagesIdle

SpecRag == InitRag /\ [][NextRag]_vars

(***************************************************************************)
(* utils/retry.py: retry_with_exponential_backoff.                         *)
(***************************************************************************)
MaxRetriesArg == 3           \* largest max_retries tried

\* What an invocation of func does: it returns, raises an exception that is
\* an instance of one of `exceptions`, or raises another one.
FuncOutcomes == {"ok", "in_E", "not_in_E"}

\* max_retries, and the behaviour of func at its first, second, ... invocation.
RetryInputs ==
    [max_retries : -1..MaxRetriesArg,
     outcomes : [1..(MaxRetriesArg + 1) -> FuncOutcomes]]

\* except exceptions as e
Catches(o) == o = "in_E"

\* if attempt == max_retries: ... raise
IsLastAttemptNever(attempt, max_retries) == FALSE

IsLastAttempt(attempt, max_retries) == attempt = max_retries

RetryFrame == UNCHANGED <<stageVars, normVars, docVars, rtVars, ragVars, chatVars>>

\* The call: last_exception = None and the first round of
\* `for attempt in range(max_retries + 1)`; with an empty range the code
\* after the loop raises Exception("Unexpected retry state").
RetryStart ==
    /\ bPc = "idle"
    /\ \E a \in RetryInputs :
        /\ bArgs' = a
        /\ IF a.max_retries + 1 > 0
           THEN /\ bPc' = "call"
                /\ bOutcome' = <<>>
           ELSE /\ bPc' = "raised"
                /\ bOutcome' = [kind |-> "unexpected", of |-> 0]
    /\ bAttempt' = 0
    /\ bLog' = <<>>
    /\ RetryFrame

\* return await func(*args, **kwargs), and the except clause.
RetryCall ==
    /\ bPc = "call"
    /\ bLog' = Append(bLog, "call")
    /\ LET o == bArgs.outcomes[bAttempt + 1]
       IN  IF o = "ok"
           THEN /\ bPc' = "returned"
                /\ bOutcome' = [kind |-> "value", of |-> bAttempt + 1]
           ELSE IF ~Catches(o) \/ IsLastAttempt(bAttempt, bArgs.max_retries)
           THEN /\ bPc' = "raised"
                /\ bOutcome' = [kind |-> "exception", of |-> bAttempt + 1]
           ELSE /\ bPc' = "sleep"
                /\ bOutcome' = [kind |-> "last_exception", of |-> bAttempt + 1]
    /\ UNCHANGED <<bArgs, bAttempt>>
    /\ RetryFrame

\* await asyncio.sleep(total_delay) and the next round of the loop; after
\* the last round the code after the loop raises last_exception.
RetrySleep ==
    /\ bPc = "sleep"
    /\ bLog' = Append(bLog, "sleep")
    /\ bAttempt' = bAttempt + 1
    /\ IF bAttempt + 1 < bArgs.max_retries + 1
       THEN /\ bPc' = "call"
            /\ UNCHANGED bOutcome
       ELSE /\ bPc' = "raised"
            /\ bOutcome' = [kind |-> "exception", of |-> bOutcome.of]
    /\ UNCHANGED bArgs
    /\ RetryFrame

NextRetry == RetryStart \/ RetryCall \/ RetrySleep

InitRetry == InitCrawl /\ ObjsIdle /\ SitemapIdle /\ StagesIdle

SpecRetry == InitRetry /\ [][NextRetry]_vars

(***************************************************************************)
(* api/routes/chat.py: the chat routes over the in-memory chat_sessions.   *)
(* The handlers are coroutines without an await, so each request runs to   *)
(* its response before the next one starts.                                *)
(***************************************************************************)
MaxSessions == 2             \* sessions started
MaxMessages == 12            \* exchanges answered, over all sessions

MaxContextEntries == 20      \* if len(chat_session.context) > 20: context[-20:]

\* str(uuid.uuid4()) of the sessions; 0 is an id no session has.
SessionIds == 1..MaxSessions

RequestIds == 0..MaxSessions

\* payload.get("user_id", f"anonymous_{uuid.uuid4()}")
UserIds == {"u1", "anonymous"}

\* payload.get("question"): None for a payload without the key.
Questions == {"None", "", "q"}

\* if not question
NotQuestion(question) == question \in {"None", ""}

\* ChatSession(id=session_id, user_id=user_id): the context defaults to a
\* list of its own (pydantic copies a mutable default for every instance).
ChatSession(id, user_id) == [id |-> id, user_id |-> user_id, context |-> <<>>]

\* The two entries chat_message appends for the exchange numbered n (the
\* uuids of the query and of the response are new ones for every exchange).
QueryEntry(n, question) == [type |-> "query", content |-> question, exchange |-> n]

ResponseEntry(n) == [type |-> "response", content |-> "answer", exchange |-> n]

\* context[-n:]
LastEntries(context, n) ==
    IF Len(context) <= n THEN context
    ELSE SubSeq(context, Len(context) - n + 1, Len(context))

\* if len(chat_session.context) > 20: chat_session.context = context[-20:]
LimitContextNever(context) == context

LimitContext(context) ==
    IF Len(context) > MaxContextEntries
    THEN LastEntries(context, MaxContextEntries)
    ELSE context

ChatFrame == UNCHANGED <<stageVars, normVars, docVars, rtVars, ragVars, retryVars>>

\* POST /chat/start
start_chat_session ==
    /\ Cardinality(DOMAIN chat_sessions) < MaxSessions
    /\ \E session_id \in SessionIds \ DOMAIN chat_sessions, user_id \in UserIds :
        /\ chat_sessions' = DictPut(chat_sessions, session_id,
                                    ChatSession(session_id, user_id))
        /\ cHistory' = DictPut(cHistory, session_id, <<>>)
    /\ cOp' = "start"
    /\ cStatus' = 200
    /\ UNCHANGED cSeq
    /\ ChatFrame

\* POST /chat/{session_id}: 404 for an unknown session, 400 without a
\* question, 500 when RAGAgentService() raises (generate_response itself
\* catches every exception and answers with the fallback); otherwise the
\* query and the response are appended and the context is limited.
chat_message ==
    /\ \E session_id \in RequestIds, question \in Questions, ok \in BOOLEAN :
        IF session_id \notin DOMAIN chat_sessions
        THEN cStatus' = 404 /\ UNCHANGED <<chat_sessions, cHistory, cSeq>>
        ELSE IF NotQuestion(question)
        THEN cStatus' = 400 /\ UNCHANGED <<chat_sessions, cHistory, cSeq>>
        ELSE IF ~ok
        THEN cStatus' = 500 /\ UNCHANGED <<chat_sessions, cHistory, cSeq>>
        ELSE LET n == cSeq + 1
                 entries == <<QueryEntry(n, question), ResponseEntry(n)>>
             IN  /\ cSeq < MaxMessages
                 /\ chat_sessions' =
                        [chat_sessions EXCEPT ![session_id].context =
                            LimitContext(@ \o entries)]
                 /\ cHistory' = [cHistory EXCEPT ![session_id] = @ \o entries]
                 /\ cSeq' = n
                 /\ cStatus' = 200
    /\ cOp' = "message"
    /\ ChatFrame

\* GET /chat/{session_id}/history
get_chat_history ==
    /\ \E session_id \in RequestIds :
        cStatus' = IF session_id \in DOMAIN chat_sessions THEN 200 ELSE 404
    /\ cOp' = "history"
    /\ UNCHANGED <<chat_sessions, cHistory, cSeq>>
    /\ ChatFrame

NextChat == start_chat_session \/ chat_message \/ get_chat_history

InitChat == InitCrawl /\ ObjsIdle /\ SitemapIdle /\ StagesIdle

SpecChat == InitChat /\ [][NextChat]_vars

(***************************************************************************)
(* Properties of the crawl command.                                        *)
(***************************************************************************)
\* URLs for which a task of crawl_all has issued a request in this run.
CrawlFetched ==
    {pending[i] : i \in {j \in 1..Len(tasks) : tasks[j].st \in {"fetching", "backoff", "done"}}}

\* URLs fetched again by the extraction loop of run_crawl.
ExtractFetched == {completed[i] : i \in {j \in 1..Len(completed) : j < extractIdx}}

AllFetched == CrawlFetched \cup ExtractFetched

GatherReturned == pc \in {"saving", "extract", "final_save"}

ResumedOnState == runs > 0 /\ args.resume /\ fileAtStart.kind = "json"

\* C1: a run with resume=true against a persisted state with completed set S
\* fetches only URLs of U \ S, and, when max_pages is not set, has fetched
\* every URL of U \ S once its tasks have finished.
C1_ResumeFetchesOnlyPending ==
    ResumedOnState =>
        LET S == Range(fileAtStart.data.urls_completed)
        IN  /\ AllFetched \subseteq (Range(urls) \ S)
            /\ (args.max_pages = 0 /\ GatherReturned) => CrawlFetched = Range(urls) \ S

C1_Witness ==
    /\ ResumedOnState
    /\ pc = "extract"
    /\ args.max_pages = 0
    /\ Range(fileAtStart.data.urls_completed) \cap Range(urls) # {}
    /\ CrawlFetched # {}

\* C2: a run with resume=true never fetches a URL that the persisted state
\* records in urls_failed.
C2_FailedNotRetried ==
    ResumedOnState => AllFetched \cap DOMAIN fileAtStart.data.urls_failed = {}

InFlight == {i \in 1..Len(tasks) : tasks[i].st \in {"fetching", "backoff"}}

\* C3: at most max_concurrent_requests page fetches (a fetch with all its
\* retries) are in flight at any time.
C3_BoundedConcurrency == Cardinality(InFlight) <= MaxConcurrentRequests

C3_Witness ==
    /\ pc = "gather"
    /\ Cardinality(InFlight) = MaxConcurrentRequests
    /\ \E i \in 1..Len(tasks) : tasks[i].st = "waiting"

\* C4: when the tasks of crawl_all have returned, every attempted URL has been
\* fetched and is recorded in urls_completed (its fetch succeeded) or in
\* urls_failed with the stringified error of a failed fetch of that URL.
C4_FailuresRecorded ==
    GatherReturned =>
        \A i \in 1..Len(pending) :
            /\ tasks[i].st = "done"
            /\ tasks[i].res_url # NoUrl => is_completed(state, pending[i])
            /\ tasks[i].res_url = NoUrl =>
                /\ pending[i] \in DOMAIN state.urls_failed
                /\ \E j \in 1..Len(pending) :
                    /\ pending[j] = pending[i]
                    /\ tasks[j].res_url = NoUrl
                    /\ state.urls_failed[pending[i]] = tasks[j].res_err

C4_Witness ==
    /\ pc = "extract"
    /\ \E i, j \in 1..Len(pending) :
        /\ i < j
        /\ tasks[i].res_url = NoUrl
        /\ tasks[j].res_url = pending[j]
        /\ pending[i] # pending[j]

\* The inputs of the run that a state records as completed or failed.
RecordedIn(st) ==
    {u \in Range(urls) : is_completed(st, u) \/ u \in DOMAIN st.urls_failed}

\* C5: after an interrupt (exit code 130) the state file records every item
\* that was completed or failed at the moment of the interrupt, so that none
\* of them is pending on a following resume.
C5_InterruptPersists ==
    (pc = "exit" /\ exitCode = 130) =>
        RecordedIn(state) \subseteq RecordedIn(LoadState(stateFile))

\* C6: after a crash during a state save the state file is the complete
\* previous state or the complete new state.
C6_AtomicSave ==
    (pc = "exit" /\ exitCode = 137) =>
        stateFile \in {fileAtStart, JsonFile(to_json(state)), JsonFile(to_dict(smState))}

\* C8: a fetch that received a 4xx response is not attempted again: its task
\* is done and its URL is recorded as failed.
C8_No4xxRetry ==
    \A i \in 1..Len(tasks) :
        tasks[i].err = "HTTP404" =>
            /\ tasks[i].st = "done"
            /\ tasks[i].res_url = NoUrl
            /\ pending[i] \in DOMAIN state.urls_failed

\* C9: when fetching or parsing the root sitemap fails, the run exits with
\* code 1, no page is fetched and the state file is as it was before the run.
C9_SitemapFailureFatal ==
    sitemapFailed =>
        /\ pc = "exit"
        /\ exitCode = 1
        /\ stateFile = fileAtStart
        /\ tasks = <<>>
        /\ AllFetched = {}

C9_Witness == sitemapFailed /\ pc = "exit" /\ stateFile.kind = "json"

\* The tasks that hold a slot of the semaphore.
SlotHolders == {i \in 1..Len(tasks) : tasks[i].st \in {"sleeping", "fetching", "backoff"}}

\* A step of task i inside gather.
TaskOrder(i) ==
    /\ (tasks[i].st # "sleeping" /\ tasks'[i].st = "sleeping")
           => (tasks[i].st = "waiting" /\ sem > 0 /\ sem' = sem - 1)
    /\ (tasks[i].st # "fetching" /\ tasks'[i].st = "fetching")
           => \/ tasks[i].st = "sleeping" /\ tasks'[i].attempt = 0
              \/ tasks[i].st = "backoff" /\ tasks'[i].attempt > 0
    /\ (tasks[i].st # "done" /\ tasks'[i].st = "done")
           => (tasks[i].st = "fetching" /\ sem' = sem + 1)

\* C27: a crawler task acquires its slot, then sleeps, then issues its first
\* request; it holds the slot through the sleep, the fetch and its retries
\* and gives it back only when the fetch has succeeded or failed.
C27_RateLimitOrder ==
    /\ [](pc = "gather" => sem + Cardinality(SlotHolders) = MaxConcurrentRequests)
    /\ [][(pc = "gather" /\ pc' = "gather") => \A i \in 1..Len(tasks) : TaskOrder(i)]_vars
    /\ [][(pc = "gather" /\ pc' = "gather" /\ sem' > sem) =>
            \E i \in 1..Len(tasks) : tasks[i].st = "fetching" /\ tasks'[i].st = "done"]_vars

C27_Witness ==
    /\ pc = "gather"
    /\ sem = 0
    /\ \E i, j \in 1..Len(tasks) :
           /\ tasks[i].st = "fetching"
           /\ tasks[i].attempt > 0
           /\ tasks[j].st = "waiting"

\* The positions of the main task inside crawl_all.
InCrawlAll == {"sitemap", "crawl_all", "gather", "saving"}

C33_CompletedFailedDisjoint ==
    stateFile.kind = "json" =>
        LET st == from_json(stateFile.data)
        IN  Range(st.urls_completed) \cap DOMAIN st.urls_failed = {}

CrawlAllReturned == pc \in {"extract", "final_save"}

FetchedOk == {i \in 1..Len(tasks) : tasks[i].err = "None"}

FailedTerminally == {i \in 1..Len(tasks) : tasks[i].err # "None"}

C38_ResultAccounts ==
    CrawlAllReturned =>
        /\ Len(completed) = Cardinality(FetchedOk)
        /\ Range(completed) = {pending[i] : i \in FetchedOk}
        /\ Cardinality(DOMAIN failed) = Cardinality(FailedTerminally)
        /\ Len(completed) + Cardinality(DOMAIN failed) = Len(pending)


\* C39: between the runs of the crawl command, every URL of urls_completed
\* in the persisted state has its text file and its meta.json file in the
\* cache directory.
PersistedCompleted == Range(LoadState(stateFile).urls_completed)

C39_CompletedCached ==
    pc = "exit" => PersistedCompleted \subseteq cache
(***************************************************************************)
(* Properties of the embed command.                                        *)
(***************************************************************************)
\* The records of the JSONL file that this run wrote.
WrittenByRun ==
    IF jsonlFile.kind = "json"
    THEN {jsonlFile.data[j].chunk_id :
             j \in {k \in 1..Len(jsonlFile.data) : jsonlFile.data[k].created_at = eRuns}}
    ELSE {}

\* The chunks of the batch at index i and of all later batches.
ChunksFrom(i) == {eChunks[j] : j \in (i + 1)..Len(eChunks)}

\* C11: when embed_chunks returns normally for n chunks it returns n
\* embeddings, the i-th with the chunk_id of the i-th chunk and the vector
\* the provider returned for that chunk's text.
C11_EmbeddingOrder ==
    eReturned =>
        /\ Len(eEmbeddings) = Len(eChunks)
        /\ \A i \in 1..Len(eEmbeddings) :
            /\ eEmbeddings[i].chunk_id = eChunks[i]
            /\ eEmbeddings[i].vector = eProvided[i]

\* C12: when the provider returns, for batch k, a vector whose length is not
\* the configured dimension, the run fails with exit code 1 and the JSONL
\* file holds no record of this run for a chunk of batch k or a later batch.
C12_DimensionMismatchFatal ==
    eMismatchAt # -1 =>
        /\ ePc = "exit"
        /\ eExit = 1
        /\ eError = "validation"
        /\ ~eReturned
        /\ WrittenByRun \cap ChunksFrom(eMismatchAt) = {}

C12_Witness ==
    /\ eMismatchAt > 0
    /\ ePc = "exit"
    /\ eRuns = MaxEmbedRuns
    /\ jsonlFile.kind = "json"

\* C13 as stated: at most 5 provider calls are made for one batch, and when
\* every attempt failed the run fails, embed_chunks does not return and the
\* JSONL file gets no record of the failed batch or a later one.
C13_RetryBudgetFive ==
    /\ eCalls <= 5
    /\ eError = "retry_exhausted" =>
        /\ ePc = "exit"
        /\ eExit = 1
        /\ ~eReturned
        /\ WrittenByRun \cap ChunksFrom(eI) = {}

\* C13 amended: at most 6 provider calls (the first attempt and 5 retries)
\* are made for one batch, and the error is raised only after the 6th; when
\* every attempt failed the run fails, embed_chunks does not return and the
\* JSONL file gets no record of the failed batch or a later one.
C13_RetryBudget ==
    /\ eCalls <= EmbedMaxRetries + 1
    /\ eError = "retry_exhausted" =>
        /\ eCalls = EmbedMaxRetries + 1
        /\ ePc = "exit"
        /\ eExit = 1
        /\ ~eReturned
        /\ WrittenByRun \cap ChunksFrom(eI) = {}

C13_Witness ==
    /\ eError = "retry_exhausted"
    /\ eCalls = EmbedMaxRetries + 1
    /\ eI > 0
    /\ jsonlFile.kind = "json"

\* C14: when the embed run ends with a run-fatal error in batch k, after at
\* least one batch was embedded, it exits non-zero and the persisted embed
\* state records the chunk ids of the batches before k as processed.
C14_FatalStateReflectsProgress ==
    (ePc = "exit" /\ eError # "none" /\ eI > 0) =>
        /\ eExit # 0
        /\ {eChunks[j] : j \in 1..eI}
               \subseteq Range(LoadEmbedState(embedStateFile).chunks_processed)

\* C28: embed_chunks sends the chunks in consecutive batches of at most
\* batch_size, never has more than one provider request out, sends the first
\* request of a batch only when every earlier batch was answered with
\* success, and sleeps the rate-limit delay before the first request of each
\* batch, that is between the requests of two consecutive batches.
C28_SequentialBatches ==
    /\ [](ePc \in {"batch", "exit"} =>
            /\ Cardinality(eInFlight) <= 1
            /\ eInFlight \subseteq {eI}
            /\ \A k \in 1..Len(eSent) :
                    /\ Len(eSent[k]) \in 1..eArgs.batch_size
                    /\ k < Len(eSent) => Len(eSent[k]) = eArgs.batch_size
            /\ Concat(eSent) = SubSeq(eChunks, 1, Len(Concat(eSent)))
            /\ eInFlight # {} =>
                    /\ eSent # <<>>
                    /\ eI = Len(Concat(SubSeq(eSent, 1, Len(eSent) - 1)))
            /\ eReturned => Concat(eSent) = eChunks)
    /\ [][(ePc = "batch" /\ eSent' # eSent) =>
            /\ eStep = "slept"
            /\ eInFlight = {}
            /\ eI = Len(Concat(eSent))]_vars
    /\ [][(ePc = "batch" /\ eStep' = "slept") => eStep = "loop"]_vars
    /\ [][(ePc = "batch" /\ eI' # eI) =>
            /\ eStep = "sent"
            /\ eInFlight = {eI}
            /\ eInFlight' = {}
            /\ eStep' = "loop"]_vars

\* A run of three batches in which a request of the second batch was
\* retried and the request of the third batch is out.
C28_Witness ==
    /\ ePc = "batch"
    /\ Len(eSent) = 3
    /\ eInFlight = {eI}
    /\ eCalls > 2

\* The chunk ids that have a record in the embeddings file.
JsonlChunkIds ==
    IF jsonlFile.kind = "json"
    THEN {jsonlFile.data[j].chunk_id : j \in 1..Len(jsonlFile.data)}
    ELSE {}

\* C35: after a successful embed run every chunk id of the persisted
\* chunks_processed has a record in the embeddings file.
C35_JsonlCoversState ==
    (ePc = "exit" /\ eReturned /\ eExit = 0) =>
        Range(LoadEmbedState(embedStateFile).chunks_processed) \subseteq JsonlChunkIds

\* C36: the persisted chunks_processed holds each id at most once, and
\* completed_chunks is not above the number of distinct ids.
C36_ProcessedOnce ==
    LET st == LoadEmbedState(embedStateFile)
    IN  /\ \A i, j \in 1..Len(st.chunks_processed) :
               st.chunks_processed[i] = st.chunks_processed[j] => i = j
        /\ st.completed_chunks <= Cardinality(Range(st.chunks_processed))

(***************************************************************************)
(* Properties of the retry utility.                                        *)
(***************************************************************************)
\* The invocations of func so far.
Invocations == Cardinality({j \in 1..Len(bLog) : bLog[j] = "call"})

\* The first invocation among the max_retries + 1 possible ones at which
\* func does not raise an instance of `exceptions`; 0 if there is none.
FirstUncaught ==
    LET S == {j \in 1..(bArgs.max_retries + 1) : bArgs.outcomes[j] # "in_E"}
    IN  IF S = {} THEN 0 ELSE CHOOSE j \in S : \A l \in S : j <= l

\* C29: func is invoked at most max_retries + 1 times; the call returns the
\* value of the first invocation that succeeds and invokes func no more;
\* when every attempt raised an instance of `exceptions` it raises the
\* exception of the last one; an exception that is no such instance leaves
\* at once; the log alternates invocation and sleep and ends with an
\* invocation.
C29_RetryProtocol ==
    bPc # "idle" =>
        /\ Invocations <= bArgs.max_retries + 1
        /\ \A j \in 1..Len(bLog) : (bLog[j] = "call") <=> (j % 2 = 1)
        /\ bPc \in {"returned", "raised"} /\ bArgs.max_retries >= 0 =>
            /\ bLog[Len(bLog)] = "call"
            /\ Len(bLog) = 2 * Invocations - 1
            /\ bOutcome.of = Invocations
            /\ IF FirstUncaught = 0
               THEN /\ bPc = "raised"
                    /\ bOutcome.kind = "exception"
                    /\ Invocations = bArgs.max_retries + 1
               ELSE /\ Invocations = FirstUncaught
                    /\ bArgs.outcomes[FirstUncaught] = "ok" =>
                           bPc = "returned" /\ bOutcome.kind = "value"
                    /\ bArgs.outcomes[FirstUncaught] = "not_in_E" =>
                           bPc = "raised" /\ bOutcome.kind = "exception"

\* All of three attempts failed, with two sleeps, and the call raised.
C29_Witness ==
    /\ bPc = "raised"
    /\ bArgs.max_retries = 2
    /\ bLog = <<"call", "sleep", "call", "sleep", "call">>
    /\ bOutcome = [kind |-> "exception", of |-> 3]

(***************************************************************************)
(* Properties of the upload command.                                       *)
(***************************************************************************)
\* The values of i of the batch loop for n records.
BatchStarts(n) == {i \in 0..(n - 1) : i % UploadBatchSize = 0}

\* C15: upload_embeddings is not ended by a store error; when it returns,
\* every batch was attempted and every input id is in exactly one of
\* uploaded_ids (an upsert carrying it was acknowledged) and failed (its
\* single-record upsert failed on every attempt).
C15_UploadPartition ==
    /\ (uPc = "exit" /\ uEmbeddings # <<>> /\ uExit # 130) => uReturned
    /\ uReturned =>
        /\ BatchStarts(Len(uEmbeddings)) \subseteq batchTried
        /\ Cardinality(Range(uploaded_ids)) = Len(uploaded_ids)
        /\ \A id \in Range(uEmbeddings) :
            /\ (id \in Range(uploaded_ids)) # (id \in DOMAIN uFailed)
            /\ (id \in Range(uploaded_ids)) <=> (id \in acked)
            /\ (id \in DOMAIN uFailed) <=> (id \in permFailed)

C15_Witness ==
    /\ uReturned
    /\ Len(uEmbeddings) > UploadBatchSize
    /\ uEmbeddings[1] \in permFailed
    /\ uEmbeddings[2] \in acked
    /\ uEmbeddings[Len(uEmbeddings)] \in acked

\* C16: the identifier under which a record is upserted is a function of its
\* chunk_id alone: no two points sent for the same chunk_id differ in id.
C16_StoreIdFromChunkId ==
    \A p, q \in upserts : p.chunk_id = q.chunk_id => p.id = q.id

LogOps == {uLog[k].op : k \in 1..Len(uLog)}

\* C17: create_collection returns False and issues neither delete nor create
\* when the collection exists and recreate is false; with recreate true the
\* delete is issued before the create; when it returns True the collection
\* was created with the configured dimension and cosine distance, and the
\* keyword index on url was created after it.
C17_EnsureCollection ==
    /\ (uExisted /\ ~uArgs.recreate) =>
        /\ uCreated = "false"
        /\ LogOps \cap {"delete_collection", "create_collection"} = {}
    /\ uCreated = "false" => (uExisted /\ ~uArgs.recreate)
    /\ (uExisted /\ uArgs.recreate) =>
        \A i \in 1..Len(uLog) :
            uLog[i].op = "create_collection" =>
                \E j \in 1..(i - 1) : uLog[j].op = "delete_collection"
    /\ uCreated = "true" =>
        /\ \E i, j \in 1..Len(uLog) :
            /\ i < j
            /\ uLog[i] = [op |-> "create_collection", size |-> EmbeddingDimensions,
                          distance |-> "COSINE"]
            /\ uLog[j] = [op |-> "create_payload_index", field_name |-> "url"]
        /\ collection.exists
        /\ collection.size = EmbeddingDimensions
        /\ collection.distance = "COSINE"
        /\ collection.url_index

C17_Witness ==
    /\ uCreated = "true"
    /\ uExisted
    /\ uArgs.recreate
    /\ uRuns = MaxUploadRuns

\* The uploaded set of the persisted upload state.
PersistedUploaded == Range(LoadUploadState(uploadStateFile).vectors_uploaded)

\* The chunk ids upload_embeddings has sent to the store in this run.
SentChunks == {p.chunk_id : p \in upserts}

\* C31: in a run with --resume that reaches upload_embeddings, no chunk of
\* the uploaded set of the persisted state is sent to the store, and when
\* the batch loop is over every chunk of the input file outside that set
\* was sent.
C31_UploadResume ==
    (uPc = "upload" /\ uArgs.resume) =>
        /\ SentChunks \cap PersistedUploaded = {}
        /\ uI >= Len(uEmbeddings) => Range(uInput) \ PersistedUploaded \subseteq SentChunks

\* The second run resumes over a state holding c1 and c2 and has sent c3 of
\* an input of three.
C31_Witness ==
    /\ uPc = "upload"
    /\ uArgs.resume
    /\ uRuns = 2
    /\ PersistedUploaded = {"c1", "c2"}
    /\ Len(uInput) = 3
    /\ uI >= Len(uEmbeddings)
    /\ SentChunks = {"c3"}


\* C37: starting from an empty collection (created by this run), after
\* upload_embeddings has processed embeddings with pairwise distinct
\* chunk_ids and every upsert was acknowledged, the collection holds one
\* point per chunk_id: count_vectors returns the number of embeddings.
StoredChunks == {collection.points[id] : id \in DOMAIN collection.points}

C37_NoCollision ==
    (/\ uReturned
     /\ ~uNacked
     /\ uCreated = "true"
     /\ Cardinality(Range(uEmbeddings)) = Len(uEmbeddings))
    => /\ Cardinality(DOMAIN collection.points) = Len(uEmbeddings)
       /\ StoredChunks = Range(uEmbeddings)
(***************************************************************************)
(* Properties of VectorRecord.                                             *)
(***************************************************************************)
\* C18: a VectorRecord that is constructed has all eight required keys in
\* its payload, and a construction whose payload lacks one of them, or that
\* gives no payload, is rejected with an error.
C18_PayloadValidated ==
    rPc = "done" =>
        /\ ~rResult.raised => REQUIRED_PAYLOAD_FIELDS \subseteq rResult.payload
        /\ (~rInput.payload_given \/ ~(REQUIRED_PAYLOAD_FIELDS \subseteq rInput.payload))
               => rResult.raised

(***************************************************************************)
(* Properties of the chunker.                                              *)
(***************************************************************************)
\* C19: every chunk chunk_document emits has a text of at least 10
\* characters, char_end > char_start >= 0, 0 <= chunk_index < total_chunks
\* with total_chunks the number of chunks emitted, and token_count >= 1;
\* the chunk_index values are 0..total_chunks-1 in order.
C19_ChunkInvariants ==
    (kPc = "done" /\ ~kResult.raised) =>
        \A k \in 1..Len(kResult.chunks) :
            LET c == kResult.chunks[k]
            IN  /\ Len(c.text) >= 10
                /\ c.char_end > c.char_start
                /\ c.char_start >= 0
                /\ c.chunk_index = k - 1
                /\ c.chunk_index < c.total_chunks
                /\ c.total_chunks = Len(kResult.chunks)
                /\ c.token_count >= 1

C19_Witness ==
    /\ kPc = "done"
    /\ ~kResult.raised
    /\ Len(kResult.chunks) >= 2
    /\ kInput.cfg.chunk_overlap > 0

\* C20: with chunk_overlap < chunk_size, every chunk emitted has a
\* token_count (len(text) div 4) of at most chunk_size.
C20_TokenBounded ==
    (kPc = "done" /\ ~kResult.raised) =>
        \A k \in 1..Len(kResult.chunks) :
            /\ kResult.chunks[k].token_count = Len(kResult.chunks[k].text) \div 4
            /\ kResult.chunks[k].token_count <= kInput.cfg.chunk_size

\* The input of the chunk boundary scenario: one paragraph of exactly
\* 2 * chunk_size * 4 characters with no sentence terminator.
BoundaryInput(text, cfg) ==
    /\ Len(text) = 2 * cfg.chunk_size * CharsPerToken
    /\ strip(text) = text
    /\ Len(SplitParagraphs(text, 1, <<>>)) = 1
    /\ \A i \in 1..Len(text) : text[i] \notin {".", "!", "?"}

\* C21: for a single paragraph of exactly 2*chunk_size*4 characters with no
\* sentence terminators the chunker emits exactly 2 chunks, and the first
\* overlap*4 characters of the second chunk are the last overlap*4
\* characters of the first.
C21_ChunkBoundary ==
    (kPc = "done" /\ BoundaryInput(kInput.text, kInput.cfg)) =>
        /\ ~kResult.raised
        /\ Len(kResult.chunks) = 2
        /\ FirstChars(kResult.chunks[2].text, kInput.cfg.chunk_overlap * CharsPerToken)
             = LastChars(kResult.chunks[1].text, kInput.cfg.chunk_overlap * CharsPerToken)

\* The pieces of seq, stripped, without the empty ones.
RECURSIVE StrippedPieces(_)
StrippedPieces(seq) ==
    IF seq = <<>> THEN <<>>
    ELSE (IF strip(Head(seq)) = <<>> THEN <<>> ELSE <<strip(Head(seq))>>)
             \o StrippedPieces(Tail(seq))

\* The units of a text, in the order of the text: its paragraphs, and for a
\* paragraph of more than 1.5 * chunk_size tokens its sentences.
RECURSIVE UnitsOf(_, _)
UnitsOf(paragraphs, cfg) ==
    IF paragraphs = <<>> THEN <<>>
    ELSE (IF TooBig(count_tokens(Head(paragraphs)), cfg)
          THEN StrippedPieces(SplitSentences(Head(paragraphs), 1, <<>>))
          ELSE <<Head(paragraphs)>>)
             \o UnitsOf(Tail(paragraphs), cfg)

Units(text, cfg) == UnitsOf(StrippedPieces(SplitParagraphs(text, 1, <<>>)), cfg)

\* The units from u on lie in full in the chunks from c on, in order: each
\* one in the same chunk as the one before it and after it (from the
\* character at pos on), or in a later chunk.
RECURSIVE Placed(_, _, _, _, _)
Placed(units, u, chunks, c, pos) ==
    IF u > Len(units) THEN TRUE
    ELSE IF c > Len(chunks) THEN FALSE
    ELSE LET at == Find(chunks[c], units[u], pos)
         IN  IF at # -1 THEN Placed(units, u + 1, chunks, c, at + Len(units[u]))
             ELSE Placed(units, u, chunks, c + 1, 0)

\* C22: every unit of the text (a paragraph, or a sentence of an oversized
\* paragraph) lies in full in a chunk of _split_text, the units follow each
\* other in the chunk sequence as they do in the text, and chunk_document
\* emits these chunks, in this order, unless it raises.
C22_NoSkipNoReorder ==
    kPc = "done" =>
        /\ Placed(Units(kInput.text, kInput.cfg), 1, kSplit, 1, 0)
        /\ ~kResult.raised =>
               /\ Len(kResult.chunks) = Len(kSplit)
               /\ \A k \in 1..Len(kSplit) : kResult.chunks[k].text = kSplit[k]

C22_Witness ==
    /\ kPc = "done"
    /\ ~kResult.raised
    /\ Len(kSplit) >= 2
    /\ kInput.cfg.chunk_overlap > 0
    /\ Len(Units(kInput.text, kInput.cfg)) > Len(SplitParagraphs(kInput.text, 1, <<>>))
    /\ \E u, v \in 1..Len(Units(kInput.text, kInput.cfg)) :
           Units(kInput.text, kInput.cfg)[u] # Units(kInput.text, kInput.cfg)[v]

\* s.lstrip()
lstrip(t) ==
    LET keep == {i \in 1..Len(t) : ~IsSpace(t[i])}
    IN  IF keep = {} THEN <<>>
        ELSE SubSeq(t, CHOOSE i \in keep : \A j \in keep : i <= j, Len(t))

\* t begins with p.
StartsWith(t, p) == Len(p) <= Len(t) /\ SubSeq(t, 1, Len(p)) = p

\* The overlap tail of chunk k: its last chunk_overlap*4 characters.
OverlapTail(k) ==
    LET n == kInput.cfg.chunk_overlap * CharsPerToken
    IN  [i \in 1..(IF Len(kSplit[k]) < n THEN Len(kSplit[k]) ELSE n) |->
            kSplit[k][Len(kSplit[k]) - (IF Len(kSplit[k]) < n THEN Len(kSplit[k]) ELSE n) + i]]

IsPrefix(a, b) == Len(a) <= Len(b) /\ SubSeq(b, 1, Len(a)) = a

\* C7: every operation of the state objects leaves what urls_completed,
\* chunks_processed and vectors_uploaded held in place and only appends.
C7_AppendOnly ==
    [][/\ IsPrefix(objs.crawler.urls_completed, objs'.crawler.urls_completed)
       /\ IsPrefix(objs.crawl.urls_completed, objs'.crawl.urls_completed)
       /\ IsPrefix(objs.embed.chunks_processed, objs'.embed.chunks_processed)
       /\ IsPrefix(objs.upload.vectors_uploaded, objs'.upload.vectors_uploaded)]_vars

C7_Witness ==
    /\ \E u \in Range(objs.crawl.urls_completed) : u \in DOMAIN objs.crawl.urls_failed
    /\ objs.embed.chunks_processed # <<>>

(***************************************************************************)
(* Properties of sitemap discovery.                                        *)
(***************************************************************************)
\* C10: for a root sitemap index, fetch_sitemap returns every <url><loc>
\* entry of every <sitemap><loc> child that can be fetched and parsed.
C10_IndexDiscovery ==
    smPc = "done" =>
        \A k \in 1..Len(smWeb.root.sitemaps) :
            LET d == smWeb.child[smWeb.root.sitemaps[k]]
            IN  (RetrySucceeds(d.fails, NestedMaxRetries) /\ ~d.malformed) =>
                    Range(NonEmptyLocs(d.urls)) \subseteq Range(smResult)

(***************************************************************************)
(* Properties of the normalizer.                                           *)
(***************************************************************************)
\* C23: normalizing a normalized text changes nothing:
\* _normalize_text(_normalize_text(t)) = _normalize_text(t) for every t.
C23_NormalizeIdempotent == nPc = "twice" => nTwice = nOnce

C23_Witness ==
    /\ nPc = "twice"
    /\ nOnce # nInput
    /\ nOnce # <<>>
    /\ \E k \in 1..Len(nOnce) : nOnce[k] = "\n"
    /\ \E k \in 1..Len(nInput) : nInput[k] = "\r"

(***************************************************************************)
(* Properties of DocumentPage.                                             *)
(***************************************************************************)
\* The DocumentPage objects there are.
Pages ==
    (IF dPc \in {"extracted", "cached", "loaded"} THEN {dDoc} ELSE {})
        \cup (IF dPc = "loaded" /\ ~dLoaded.raised THEN {dLoaded} ELSE {})

\* C24: every DocumentPage, made by the extractor or loaded from the cache
\* files, has content_hash = SHA-256 of its extracted_text.
C24_ContentHash ==
    \A doc \in Pages : doc.content_hash = Sha256(doc.extracted_text)

(***************************************************************************)
(* Properties of the state file.                                           *)
(***************************************************************************)
\* C25: a state object saved with save_state and loaded by a fresh
\* StateManager is equal to the saved one: same lists, same failure map,
\* same counters, same last_updated.
C25_StateRoundTrip == tPc = "loaded" => tLoaded = tObj

C25_Witness ==
    /\ tPc = "loaded"
    /\ tOps = MaxRtOps
    /\ tObj.last_updated.usec # 0
    /\ tObj.stage = "embed"
    /\ tObj.st.chunks_processed # <<>>
    /\ DOMAIN tObj.st.chunks_failed # {}

(***************************************************************************)
(* Properties of the RAG answer.                                           *)
(***************************************************************************)
\* C26: generate_response never raises; when the retrieval yields no
\* chunks, or a step of retrieval or generation raises, the response is
\* "I don't know" with no sources, confidence 0.0 and fallback_used true;
\* and a response with fallback_used false has at least one source.
C26_AnswerFallback ==
    gPc = "returned" =>
        /\ ~gResponse.raised
        /\ (gChunks = <<>> \/ gSteps # {}) => gResponse = FallbackResponse
        /\ ~gResponse.fallback_used => Len(gResponse.sources) >= 1

(***************************************************************************)
(* Properties of the chat routes                                           *)
(***************************************************************************)
\* The context of a session is the last entries of all that were appended.
IsRecentSuffix(context, history) ==
    /\ Len(context) <= Len(history)
    /\ \A k \in 1..Len(context) :
        context[k] = history[Len(history) - Len(context) + k]

\* Every query entry is immediately followed by the response of its exchange.
Paired(context) ==
    /\ Len(context) % 2 = 0
    /\ \A k \in 1..Len(context) :
        IF k % 2 = 1
        THEN /\ context[k].type = "query"
             /\ context[k + 1].type = "response"
             /\ context[k + 1].exchange = context[k].exchange
        ELSE context[k].type = "response"

\* C40: after any sequence of start, message and history requests the
\* context of every session holds at most 20 entries, the most recent ones
\* in order, every query entry immediately followed by its response entry;
\* a message that is answered with 404 or 400 changes no session's context.
C40_ChatContextBounded ==
    /\ [](\A sid \in DOMAIN chat_sessions :
            LET context == chat_sessions[sid].context
                history == cHistory[sid]
            IN  /\ Len(context) <= 20
                /\ Len(context) = IF Len(history) < 20 THEN Len(history) ELSE 20
                /\ IsRecentSuffix(context, history)
                /\ Paired(context))
    /\ [][(cOp' = "message" /\ cStatus' \in {404, 400}) =>
            chat_sessions' = chat_sessions]_vars

\* A session has dropped its oldest exchange, and a message was refused.
C40_Witness ==
    /\ cOp = "message"
    /\ cStatus \in {404, 400}
    /\ \E sid \in DOMAIN chat_sessions :
        /\ Len(cHistory[sid]) > 20
        /\ Len(chat_sessions[sid].context) = 20

====
